---- MODULE Spec2Model ----
(***************************************************************************)
(* Model of the fog-of-war chess server: the board engine                  *)
(* (src/src/glub_server.rs), the game storage                              *)
(* (src/src/glub_server_storage.rs) and the request handlers and the       *)
(* move increment task that share it behind one RwLock (src/src/main.rs).  *)
(*                                                                         *)
(* Uuids are modelled as positive integers handed out by a counter         *)
(* (Uuid::new_v4 never repeats and never yields the nil uuid, written 0).  *)
(* The display name of a player and the creation instant of a game are     *)
(* stored by the code but never read by it; they are left out.             *)
(***************************************************************************)
EXTENDS Integers, Sequences, FiniteSets, TLC

VARIABLES
    games,      \* GameStorage.games : HashMap<Uuid, GameState>
    queue,      \* GameStorage.queue : Vec<QueuedPlayer> (the player ids)
    nextId,     \* the next uuid Uuid::new_v4 hands out
    resp,       \* the response of the last completed operation
    joined,     \* number of join_queue calls completed
    moved,      \* number of successful moves executed
    ticks,      \* rounds of the increment task counted by SpecRegistry and SpecLock
    lock,       \* the RwLock around the storage: its writer and its readers
    pc,         \* where each handler and the increment task stands (SpecLock)
    job,        \* the request and the locals of each of them (SpecLock)
    stable      \* the storage as a mutating operation found it, while it runs (SpecLock)

lockvars == <<lock, pc, job, stable>>
vars == <<games, queue, nextId, resp, joined, moved, ticks, lock, pc, job, stable>>

----------------------------------------------------------------------------
(* Bounds of the model *)

MaxPlayers == 2        \* join_queue calls in Spec
MaxMoves == 2          \* successful moves in Spec
MaxBoardMoves == 1     \* successful moves in SpecBoard, after its opening
MaxJoins == 4          \* join_queue calls in SpecRegistry
MaxTicks == 1          \* rounds of the increment task in SpecRegistry
MaxRegMoves == 1       \* successful moves in SpecRegistry
MaxLockJoins == 4      \* join_queue calls in SpecLock
MaxLockTicks == 1      \* rounds of the increment task in SpecLock
MaxRegenTicks == 17     \* rounds of the increment task in SpecRegen
MaxRegenMoves == 2      \* successful moves in SpecRegen
MaxLockMoves == 1      \* successful moves in SpecLock
MaxLiveMoves == 2      \* successful moves in SpecLive

(* Program constants *)

BoardSize == 8
MaxStoredMoves == 5
CountdownReset == 3
InitialMoves == 1
InitialCountdown == 3
ScoutSight == 3
DefaultSight == 1

----------------------------------------------------------------------------
(* Board engine: src/src/glub_server.rs *)

White == "White"
Black == "Black"
PlayerColor == {White, Black}

ChestPiece == {"Pawn", "Scout", "Rook", "Knight", "Bishop", "Queen", "King"}

\* Option<ExtendedSlot>: None, or Some(ExtendedSlot {piece, color})
None == [piece |-> "None", color |-> "None"]
ExtendedSlot(p, c) == [piece |-> p, color |-> c]
is_some(slot) == slot # None
is_none(slot) == slot = None

Idx == 0 .. (BoardSize - 1)

Abs(x) == IF x < 0 THEN -x ELSE x
Signum(x) == IF x > 0 THEN 1 ELSE IF x < 0 THEN -1 ELSE 0
Min(a, b) == IF a < b THEN a ELSE b

\* ExtendedBoard::new
NewBoard == [r \in Idx |-> [c \in Idx |-> None]]

white_pieces == <<"Rook", "Knight", "Bishop", "Queen", "King", "Bishop", "Scout", "Rook">>
black_pieces == <<"Rook", "Scout", "Bishop", "Queen", "King", "Bishop", "Knight", "Rook">>

\* setup_initial_position without the clearing of the board
setup_initial_position_no_clear(slots) ==
    [r \in Idx |-> [c \in Idx |->
        CASE r = 1 -> ExtendedSlot("Pawn", White)
          [] r = 0 -> ExtendedSlot(white_pieces[c + 1], White)
          [] r = 6 -> ExtendedSlot("Pawn", Black)
          [] r = 7 -> ExtendedSlot(black_pieces[c + 1], Black)
          [] OTHER -> slots[r][c]]]

\* ExtendedBoard::setup_initial_position: clears the board, then fills rows 1, 0, 6, 7
setup_initial_position(slots) ==
    [r \in Idx |-> [c \in Idx |->
        CASE r = 1 -> ExtendedSlot("Pawn", White)
          [] r = 0 -> ExtendedSlot(white_pieces[c + 1], White)
          [] r = 6 -> ExtendedSlot("Pawn", Black)
          [] r = 7 -> ExtendedSlot(black_pieces[c + 1], Black)
          [] OTHER -> NewBoard[r][c]]]

\* the sight range match of get_visible_positions
\* sight_range with the Scout seeing as far as it moves
sight_range_as_moves(piece) == IF piece = "Scout" THEN 2 ELSE DefaultSight

sight_range(piece) == IF piece = "Scout" THEN ScoutSight ELSE DefaultSight

\* add_visible_positions without the distance test: the whole square of side 2 * range + 1
add_visible_positions_square(center_row, center_col, range) ==
    {<<center_row + dr, center_col + dc>> :
        <<dr, dc>> \in {d \in (-range .. range) \X (-range .. range) :
            /\ center_row + d[1] >= 0 /\ center_row + d[1] < BoardSize
            /\ center_col + d[2] >= 0 /\ center_col + d[2] < BoardSize}}

\* ExtendedBoard::add_visible_positions: the squares it inserts.
\* sqrt(dr^2 + dc^2) <= range is decided on the squares: the operands are small
\* integers, for which the f64 square root is exact on perfect squares.
add_visible_positions(center_row, center_col, range) ==
    {<<center_row + dr, center_col + dc>> :
        <<dr, dc>> \in {d \in (-range .. range) \X (-range .. range) :
            /\ center_row + d[1] >= 0 /\ center_row + d[1] < BoardSize
            /\ center_col + d[2] >= 0 /\ center_col + d[2] < BoardSize
            /\ d[1] * d[1] + d[2] * d[2] <= range * range}}

\* ExtendedBoard::get_visible_positions
get_visible_positions(slots, player_color) ==
    UNION {{<<row, col>>} \cup add_visible_positions(row, col, sight_range(slots[row][col].piece)) :
        <<row, col>> \in {p \in Idx \X Idx :
            is_some(slots[p[1]][p[2]]) /\ slots[p[1]][p[2]].color = player_color}}

\* ExtendedBoard::is_path_clear: the while loop, from the square (current_row, current_col)
RECURSIVE path_walk(_, _, _, _, _, _, _)
path_walk(slots, current_row, current_col, to_row, to_col, dr, dc) ==
    IF current_row = to_row /\ current_col = to_col THEN TRUE
    ELSE IF current_row < 0 \/ current_row >= BoardSize
            \/ current_col < 0 \/ current_col >= BoardSize THEN FALSE
    ELSE IF is_some(slots[current_row][current_col]) THEN FALSE
    ELSE path_walk(slots, current_row + dr, current_col + dc, to_row, to_col, dr, dc)

\* is_path_clear looking at the first square of the walk only
is_path_clear_first_square(slots, from, to) ==
    LET dr == Signum(to[1] - from[1])
        dc == Signum(to[2] - from[2])
    IN  \/ from[1] + dr = to[1] /\ from[2] + dc = to[2]
        \/ /\ from[1] + dr \in Idx /\ from[2] + dc \in Idx
           /\ is_none(slots[from[1] + dr][from[2] + dc])

\* the number of squares the while loop of is_path_clear visits before it returns
RECURSIVE path_walk_steps(_, _, _, _, _, _, _)
path_walk_steps(slots, current_row, current_col, to_row, to_col, dr, dc) ==
    IF current_row = to_row /\ current_col = to_col THEN 0
    ELSE IF current_row < 0 \/ current_row >= BoardSize
            \/ current_col < 0 \/ current_col >= BoardSize THEN 1
    ELSE IF is_some(slots[current_row][current_col]) THEN 1
    ELSE 1 + path_walk_steps(slots, current_row + dr, current_col + dc, to_row, to_col, dr, dc)

is_path_clear(slots, from, to) ==
    LET dr == Signum(to[1] - from[1])
        dc == Signum(to[2] - from[2])
    IN  path_walk(slots, from[1] + dr, from[2] + dc, to[1], to[2], dr, dc)

\* is_valid_move with the knight's (1, 2) shape left out
is_valid_move_knight_one_shape(slots, piece_info, from, to) ==
    LET dr == to[1] - from[1]
        dc == to[2] - from[2]
        forward == IF piece_info.color = "White" THEN 1 ELSE -1
    IN  CASE piece_info.piece = "Pawn" ->
                IF dc = 0 /\ dr = forward THEN is_none(slots[to[1]][to[2]])
                ELSE IF Abs(dc) = 1 /\ dr = forward THEN is_some(slots[to[1]][to[2]])
                ELSE FALSE
          [] piece_info.piece = "Scout" ->
                dr * dr + dc * dc <= 4 /\ dr * dr + dc * dc >= 1
          [] piece_info.piece = "Rook" ->
                (dr = 0 \/ dc = 0) /\ is_path_clear(slots, from, to)
          [] piece_info.piece = "Knight" ->
                Abs(dr) = 2 /\ Abs(dc) = 1
          [] piece_info.piece = "Bishop" ->
                Abs(dr) = Abs(dc) /\ is_path_clear(slots, from, to)
          [] piece_info.piece = "Queen" ->
                (dr = 0 \/ dc = 0 \/ Abs(dr) = Abs(dc)) /\ is_path_clear(slots, from, to)
          [] piece_info.piece = "King" ->
                Abs(dr) <= 1 /\ Abs(dc) <= 1 /\ (dr # 0 \/ dc # 0)

\* is_valid_move with the pawns of both colors marching toward row 7
is_valid_move_one_forward(slots, piece_info, from, to) ==
    LET dr == to[1] - from[1]
        dc == to[2] - from[2]
        forward == 1
    IN  CASE piece_info.piece = "Pawn" ->
                IF dc = 0 /\ dr = forward THEN is_none(slots[to[1]][to[2]])
                ELSE IF Abs(dc) = 1 /\ dr = forward THEN is_some(slots[to[1]][to[2]])
                ELSE FALSE
          [] piece_info.piece = "Scout" ->
                dr * dr + dc * dc <= 4 /\ dr * dr + dc * dc >= 1
          [] piece_info.piece = "Rook" ->
                (dr = 0 \/ dc = 0) /\ is_path_clear(slots, from, to)
          [] piece_info.piece = "Knight" ->
                (Abs(dr) = 2 /\ Abs(dc) = 1) \/ (Abs(dr) = 1 /\ Abs(dc) = 2)
          [] piece_info.piece = "Bishop" ->
                Abs(dr) = Abs(dc) /\ is_path_clear(slots, from, to)
          [] piece_info.piece = "Queen" ->
                (dr = 0 \/ dc = 0 \/ Abs(dr) = Abs(dc)) /\ is_path_clear(slots, from, to)
          [] piece_info.piece = "King" ->
                Abs(dr) <= 1 /\ Abs(dc) <= 1 /\ (dr # 0 \/ dc # 0)

\* ExtendedBoard::is_valid_move
is_valid_move(slots, piece_info, from, to) ==
    LET dr == to[1] - from[1]
        dc == to[2] - from[2]
        forward == IF piece_info.color = White THEN 1 ELSE -1
    IN  CASE piece_info.piece = "Pawn" ->
                IF dc = 0 /\ dr = forward THEN is_none(slots[to[1]][to[2]])
                ELSE IF Abs(dc) = 1 /\ dr = forward THEN is_some(slots[to[1]][to[2]])
                ELSE FALSE
          [] piece_info.piece = "Scout" ->
                \* 1.0 <= sqrt(dr^2 + dc^2) <= 2.0
                dr * dr + dc * dc <= 4 /\ dr * dr + dc * dc >= 1
          [] piece_info.piece = "Rook" ->
                (dr = 0 \/ dc = 0) /\ is_path_clear(slots, from, to)
          [] piece_info.piece = "Knight" ->
                (Abs(dr) = 2 /\ Abs(dc) = 1) \/ (Abs(dr) = 1 /\ Abs(dc) = 2)
          [] piece_info.piece = "Bishop" ->
                Abs(dr) = Abs(dc) /\ is_path_clear(slots, from, to)
          [] piece_info.piece = "Queen" ->
                (dr = 0 \/ dc = 0 \/ Abs(dr) = Abs(dc)) /\ is_path_clear(slots, from, to)
          [] piece_info.piece = "King" ->
                Abs(dr) <= 1 /\ Abs(dc) <= 1 /\ (dr # 0 \/ dc # 0)

BoardOk(slots) == [ok |-> TRUE, err |-> "", slots |-> slots]
BoardErr(slots, e) == [ok |-> FALSE, err |-> e, slots |-> slots]

\* execute_move that leaves the man on the square it came from as well
execute_move_keeps_source(slots, from, to, piece_info) ==
    [slots EXCEPT ![to[1]][to[2]] = piece_info]

\* the last two statements of ExtendedBoard::make_move
execute_move(slots, from, to, piece_info) ==
    [[slots EXCEPT ![from[1]][from[2]] = None] EXCEPT ![to[1]][to[2]] = piece_info]

\* board_make_move with the move executed before the destination is checked
board_make_move_late_check(slots, from, to, player_color) ==
    IF from[1] >= BoardSize \/ from[2] >= BoardSize \/ to[1] >= BoardSize \/ to[2] >= BoardSize
    THEN BoardErr(slots, "Invalid coordinates")
    ELSE LET piece_info == slots[from[1]][from[2]] IN
    IF is_none(piece_info) THEN BoardErr(slots, "No piece at source position")
    ELSE IF piece_info.color # player_color THEN BoardErr(slots, "Not your piece")
    ELSE IF ~is_valid_move(slots, piece_info, from, to)
        THEN BoardErr(slots, "Invalid move for this piece")
    ELSE IF piece_info.piece = "Scout" /\ is_some(slots[to[1]][to[2]])
        THEN BoardErr(execute_move(slots, from, to, piece_info), "Scouts cannot capture pieces")
    ELSE IF is_some(slots[to[1]][to[2]]) /\ slots[to[1]][to[2]].color = player_color
        THEN BoardErr(execute_move(slots, from, to, piece_info), "Cannot capture your own piece")
    ELSE BoardOk(execute_move(slots, from, to, piece_info))

\* board_make_move with the own-capture check ahead of the Scout check
board_make_move_own_first(slots, from, to, player_color) ==
    IF from[1] >= BoardSize \/ from[2] >= BoardSize \/ to[1] >= BoardSize \/ to[2] >= BoardSize
    THEN BoardErr(slots, "Invalid coordinates")
    ELSE LET piece_info == slots[from[1]][from[2]] IN
    IF is_none(piece_info) THEN BoardErr(slots, "No piece at source position")
    ELSE IF piece_info.color # player_color THEN BoardErr(slots, "Not your piece")
    ELSE IF ~is_valid_move(slots, piece_info, from, to)
        THEN BoardErr(slots, "Invalid move for this piece")
    ELSE IF is_some(slots[to[1]][to[2]]) /\ slots[to[1]][to[2]].color = player_color
        THEN BoardErr(slots, "Cannot capture your own piece")
    ELSE IF piece_info.piece = "Scout" /\ is_some(slots[to[1]][to[2]])
        THEN BoardErr(slots, "Scouts cannot capture pieces")
    ELSE BoardOk(execute_move(slots, from, to, piece_info))

\* board_make_move that asks neither is_valid_move nor the Scout check
board_make_move_unvalidated(slots, from, to, player_color) ==
    IF from[1] >= BoardSize \/ from[2] >= BoardSize \/ to[1] >= BoardSize \/ to[2] >= BoardSize
    THEN BoardErr(slots, "Invalid coordinates")
    ELSE LET piece_info == slots[from[1]][from[2]] IN
    IF is_none(piece_info) THEN BoardErr(slots, "No piece at source position")
    ELSE IF piece_info.color # player_color THEN BoardErr(slots, "Not your piece")
    ELSE IF is_some(slots[to[1]][to[2]]) /\ slots[to[1]][to[2]].color = player_color
        THEN BoardErr(slots, "Cannot capture your own piece")
    ELSE BoardOk(execute_move(slots, from, to, piece_info))

\* board_make_move without the check that keeps Scouts from capturing
board_make_move_scout_captures(slots, from, to, player_color) ==
    IF from[1] >= BoardSize \/ from[2] >= BoardSize \/ to[1] >= BoardSize \/ to[2] >= BoardSize
    THEN BoardErr(slots, "Invalid coordinates")
    ELSE LET piece_info == slots[from[1]][from[2]] IN
    IF is_none(piece_info) THEN BoardErr(slots, "No piece at source position")
    ELSE IF piece_info.color # player_color THEN BoardErr(slots, "Not your piece")
    ELSE IF ~is_valid_move(slots, piece_info, from, to)
        THEN BoardErr(slots, "Invalid move for this piece")
    ELSE IF is_some(slots[to[1]][to[2]]) /\ slots[to[1]][to[2]].color = player_color
        THEN BoardErr(slots, "Cannot capture your own piece")
    ELSE BoardOk(execute_move(slots, from, to, piece_info))

\* ExtendedBoard::make_move: Ok(()) or Err(message), and the board afterwards
board_make_move(slots, from, to, player_color) ==
    IF from[1] >= BoardSize \/ from[2] >= BoardSize \/ to[1] >= BoardSize \/ to[2] >= BoardSize
    THEN BoardErr(slots, "Invalid coordinates")
    ELSE LET piece_info == slots[from[1]][from[2]] IN
    IF is_none(piece_info) THEN BoardErr(slots, "No piece at source position")
    ELSE IF piece_info.color # player_color THEN BoardErr(slots, "Not your piece")
    ELSE IF ~is_valid_move(slots, piece_info, from, to)
        THEN BoardErr(slots, "Invalid move for this piece")
    ELSE IF piece_info.piece = "Scout" /\ is_some(slots[to[1]][to[2]])
        THEN BoardErr(slots, "Scouts cannot capture pieces")
    ELSE IF is_some(slots[to[1]][to[2]]) /\ slots[to[1]][to[2]].color = player_color
        THEN BoardErr(slots, "Cannot capture your own piece")
    ELSE BoardOk(execute_move(slots, from, to, piece_info))

----------------------------------------------------------------------------
(* Game storage: src/src/glub_server_storage.rs *)

\* Game { id, player1_remaining_moves, ... } as create_game fills it
NewGame(game_id) ==
    [id |-> game_id,
     player1_remaining_moves |-> InitialMoves,
     player1_move_increment_countdown |-> InitialCountdown,
     player2_remaining_moves |-> InitialMoves,
     player2_move_increment_countdown |-> InitialCountdown]

PlayerInfo(id, color) == [id |-> id, color |-> color]

\* create_game with the joining player seated first
create_game_joiner_first(player1, player2, game_id) ==
    [game |-> NewGame(game_id),
     board |-> setup_initial_position(NewBoard),
     player1 |-> PlayerInfo(player2, White),
     player2 |-> PlayerInfo(player1, Black)]

\* GameStorage::create_game: the GameState it inserts under game_id
create_game(player1, player2, game_id) ==
    [game |-> NewGame(game_id),
     board |-> setup_initial_position(NewBoard),
     player1 |-> PlayerInfo(player1, White),
     player2 |-> PlayerInfo(player2, Black)]

\* join_queue that reads the waiting player with last() and leaves it queued
join_queue_no_pop(gms, q, player_id, game_id) ==
    IF Len(q) > 0
    THEN LET waiting_player == q[Len(q)] IN
         [games |-> gms @@ (game_id :> create_game(waiting_player, player_id, game_id)),
          queue |-> q,
          player_id |-> player_id,
          game_id |-> game_id,
          message |-> "Game started!"]
    ELSE [games |-> gms,
          queue |-> Append(q, player_id),
          player_id |-> player_id,
          game_id |-> 0,
          message |-> "Added to queue, waiting for opponent..."]

\* join_queue that keeps the new game as the only game
join_queue_single_game(gms, q, player_id, game_id) ==
    IF Len(q) > 0
    THEN LET waiting_player == q[Len(q)] IN
         [games |-> (game_id :> create_game(waiting_player, player_id, game_id)),
          queue |-> SubSeq(q, 1, Len(q) - 1),
          player_id |-> player_id,
          game_id |-> game_id,
          message |-> "Game started!"]
    ELSE [games |-> gms,
          queue |-> Append(q, player_id),
          player_id |-> player_id,
          game_id |-> 0,
          message |-> "Added to queue, waiting for opponent..."]

\* GameStorage::join_queue: the storage afterwards and the JoinQueueResponse.
\* player_id and game_id are the uuids that new_v4 hands out in this call.
join_queue(gms, q, player_id, game_id) ==
    IF Len(q) > 0
    THEN \* self.queue.pop(): the last entry
         LET waiting_player == q[Len(q)] IN
         [games |-> gms @@ (game_id :> create_game(waiting_player, player_id, game_id)),
          queue |-> SubSeq(q, 1, Len(q) - 1),
          player_id |-> player_id,
          game_id |-> game_id,
          message |-> "Game started!"]
    ELSE [games |-> gms,
          queue |-> Append(q, player_id),
          player_id |-> player_id,
          game_id |-> 0,
          message |-> "Added to queue, waiting for opponent..."]

\* player_slot with a final else that seats every other id as player 2
player_slot_else_player2(game_state, player_id) ==
    IF game_state.player1.id = player_id THEN "player1" ELSE "player2"

\* the color lookup shared by get_fogged_board and make_move: "player1", "player2" or "none"
player_slot(game_state, player_id) ==
    IF game_state.player1.id = player_id THEN "player1"
    ELSE IF game_state.player2.id = player_id THEN "player2"
    ELSE "none"

\* fogged_slots that copies every occupied cell, visible or not
fogged_slots_unmasked(slots, visible_positions) ==
    [row \in Idx |-> [col \in Idx |-> slots[row][col]]]

\* the fogged_slots loop of get_fogged_board
fogged_slots(slots, visible_positions) ==
    [row \in Idx |-> [col \in Idx |->
        IF <<row, col>> \in visible_positions THEN slots[row][col] ELSE None]]

\* GameStorage::get_fogged_board
get_fogged_board(gms, game_id, player_id) ==
    IF game_id \notin DOMAIN gms THEN [kind |-> "Err", error |-> "Game not found"]
    ELSE LET game_state == gms[game_id]
             who == player_slot(game_state, player_id)
         IN  IF who = "none" THEN [kind |-> "Err", error |-> "Player not in this game"]
             ELSE LET player_color == game_state[who].color IN
                  [kind |-> "Ok",
                   slots |-> fogged_slots(game_state.board,
                                get_visible_positions(game_state.board, player_color)),
                   your_color |-> player_color]

MoveResponse(success, message, remaining_moves) ==
    [kind |-> "Ok", success |-> success, message |-> message,
     remaining_moves |-> remaining_moves]

\* consume_move_point with the two branches swapped
consume_move_point_swapped(game, is_player1) ==
    IF is_player1
    THEN [game EXCEPT !.player2_remaining_moves = @ - 1]
    ELSE [game EXCEPT !.player1_remaining_moves = @ - 1]

\* the Ok arm of make_move: the move point is consumed
consume_move_point(game, is_player1) ==
    IF is_player1
    THEN [game EXCEPT !.player1_remaining_moves = @ - 1]
    ELSE [game EXCEPT !.player2_remaining_moves = @ - 1]

remaining_moves_of(game, is_player1) ==
    IF is_player1 THEN game.player1_remaining_moves ELSE game.player2_remaining_moves

\* make_move whose Ok arm consumes the seat's move point in every game
make_move_every_game(gms, game_id, move_req) ==
    IF game_id \notin DOMAIN gms
    THEN [games |-> gms, result |-> [kind |-> "Err", error |-> "Game not found"]]
    ELSE LET game_state == gms[game_id]
             who == player_slot(game_state, move_req.player_id)
             is_player1 == who = "player1"
         IN
    IF who = "none"
    THEN [games |-> gms, result |-> [kind |-> "Err", error |-> "Player not in this game"]]
    ELSE LET remaining_moves == remaining_moves_of(game_state.game, is_player1) IN
    IF remaining_moves = 0
    THEN [games |-> gms, result |-> MoveResponse(FALSE, "No moves remaining", 0)]
    ELSE LET player_color == game_state[who].color
             moved_board == board_make_move(game_state.board, move_req.from, move_req.to,
                                            player_color)
         IN
    IF moved_board.ok
    THEN LET game == consume_move_point(game_state.game, is_player1) IN
         [games |-> [g \in DOMAIN gms |->
                        IF g = game_id
                        THEN [game_state EXCEPT !.board = moved_board.slots, !.game = game]
                        ELSE [gms[g] EXCEPT !.game = consume_move_point(@, is_player1)]],
          result |-> MoveResponse(TRUE, "Move successful", remaining_moves_of(game, is_player1))]
    ELSE [games |-> [gms EXCEPT ![game_id] = [game_state EXCEPT !.board = moved_board.slots]],
          result |-> MoveResponse(FALSE, moved_board.err, remaining_moves)]

\* GameStorage::make_move: the games afterwards and the result
make_move(gms, game_id, move_req) ==
    IF game_id \notin DOMAIN gms
    THEN [games |-> gms, result |-> [kind |-> "Err", error |-> "Game not found"]]
    ELSE LET game_state == gms[game_id]
             who == player_slot(game_state, move_req.player_id)
             is_player1 == who = "player1"
         IN
    IF who = "none"
    THEN [games |-> gms, result |-> [kind |-> "Err", error |-> "Player not in this game"]]
    ELSE LET remaining_moves == remaining_moves_of(game_state.game, is_player1) IN
    IF remaining_moves = 0
    THEN [games |-> gms, result |-> MoveResponse(FALSE, "No moves remaining", 0)]
    ELSE LET player_color == game_state[who].color
             moved_board == board_make_move(game_state.board, move_req.from, move_req.to,
                                            player_color)
         IN
    IF moved_board.ok
    THEN LET game == consume_move_point(game_state.game, is_player1) IN
         [games |-> [gms EXCEPT ![game_id] =
                        [game_state EXCEPT !.board = moved_board.slots, !.game = game]],
          result |-> MoveResponse(TRUE, "Move successful", remaining_moves_of(game, is_player1))]
    ELSE [games |-> [gms EXCEPT ![game_id] = [game_state EXCEPT !.board = moved_board.slots]],
          result |-> MoveResponse(FALSE, moved_board.err, remaining_moves)]

\* GameStorage::get_game_status
get_game_status(gms, game_id) ==
    IF game_id \notin DOMAIN gms THEN [kind |-> "Err", error |-> "Game not found"]
    ELSE [kind |-> "Ok",
          game_id |-> game_id,
          player1_moves |-> gms[game_id].game.player1_remaining_moves,
          player2_moves |-> gms[game_id].game.player2_remaining_moves,
          current_turn |-> 0]

\* increment_step that grants no move point to a player who holds none
increment_step_skips_empty(remaining_moves, countdown) ==
    IF countdown > 0
    THEN [remaining_moves |-> remaining_moves, countdown |-> countdown - 1]
    ELSE [remaining_moves |-> IF remaining_moves = 0 THEN 0
                              ELSE Min(remaining_moves + 1, MaxStoredMoves),
          countdown |-> CountdownReset]

\* increment_step without the cap on the stored moves
increment_step_uncapped(remaining_moves, countdown) ==
    IF countdown > 0
    THEN [remaining_moves |-> remaining_moves, countdown |-> countdown - 1]
    ELSE [remaining_moves |-> remaining_moves + 1, countdown |-> CountdownReset]

\* increment_step that leaves the countdown at 0 once the stored moves are full
increment_step_no_reset(remaining_moves, countdown) ==
    IF countdown > 0
    THEN [remaining_moves |-> remaining_moves, countdown |-> countdown - 1]
    ELSE IF remaining_moves >= MaxStoredMoves
    THEN [remaining_moves |-> remaining_moves, countdown |-> countdown]
    ELSE [remaining_moves |-> remaining_moves + 1, countdown |-> CountdownReset]

\* one player's branch of increment_moves
increment_step(remaining_moves, countdown) ==
    IF countdown > 0
    THEN [remaining_moves |-> remaining_moves, countdown |-> countdown - 1]
    ELSE [remaining_moves |-> Min(remaining_moves + 1, MaxStoredMoves),
          countdown |-> CountdownReset]

\* the body of the loop of increment_moves, for one game
increment_game(game) ==
    LET p1 == increment_step(game.player1_remaining_moves, game.player1_move_increment_countdown)
        p2 == increment_step(game.player2_remaining_moves, game.player2_move_increment_countdown)
    IN  [game EXCEPT !.player1_remaining_moves = p1.remaining_moves,
                     !.player1_move_increment_countdown = p1.countdown,
                     !.player2_remaining_moves = p2.remaining_moves,
                     !.player2_move_increment_countdown = p2.countdown]

\* GameStorage::increment_moves
increment_moves(gms) ==
    [g \in DOMAIN gms |-> [gms[g] EXCEPT !.game = increment_game(gms[g].game)]]

----------------------------------------------------------------------------
(* Request handlers and the move increment task: src/src/main.rs.           *)
(* Every handler takes the storage lock (write for join_queue and           *)
(* make_move, read for get_board and get_game_status), calls the storage    *)
(* and maps the Result to a status code; the guard is dropped on return.    *)
(* In Spec and SpecBoard a handler is one step: the lock makes its body     *)
(* atomic, which SpecLock below checks with the lock itself modelled.       *)

NilUuid == 0
\* a path segment that Uuid::parse_str rejects
Malformed == -1

MoveRequest(player_id, from, to) == [player_id |-> player_id, from |-> from, to |-> to]

\* the request handlers that run at once, and the task main spawns
Handlers == {"h1", "h2"}
TickTask == "tick"
Procs == Handlers \cup {TickTask}

Idle == [op |-> "none"]

\* no mutating operation is inside: the storage is as whole operations left it
Settled == [held |-> FALSE]

\* RwLock::new, and every handler and the task before its first request
LockInit ==
    /\ lock = [writer |-> "none", readers |-> {}]
    /\ pc = [p \in Procs |-> "idle"]
    /\ job = [p \in Procs |-> Idle]
    /\ stable = Settled

Init ==
    /\ games = <<>>
    /\ queue = <<>>
    /\ nextId = 1
    /\ resp = [op |-> "none"]
    /\ joined = 0
    /\ moved = 0
    /\ ticks = 0
    /\ LockInit

\* join_queue handler
JoinQueue ==
    /\ LET out == join_queue(games, queue, nextId, nextId + 1) IN
        /\ games' = out.games
        /\ queue' = out.queue
        /\ nextId' = IF out.game_id # NilUuid THEN nextId + 2 ELSE nextId + 1
        /\ resp' = [op |-> "join_queue", status |-> "OK",
                    result |-> [kind |-> "Ok", player_id |-> out.player_id,
                                game_id |-> out.game_id, message |-> out.message]]
    /\ joined' = joined + 1
    /\ UNCHANGED <<moved, ticks, lockvars>>

\* get_board handler
GetBoard(game_id, player_id) ==
    /\ resp' = IF game_id = Malformed
               THEN [op |-> "get_board", game_id |-> game_id, player_id |-> player_id,
                     status |-> "BAD_REQUEST", result |-> [kind |-> "Unparsed"]]
               ELSE LET result == get_fogged_board(games, game_id, player_id) IN
                    [op |-> "get_board", game_id |-> game_id, player_id |-> player_id,
                     status |-> IF result.kind = "Ok" THEN "OK" ELSE "NOT_FOUND",
                     result |-> result]
    /\ UNCHANGED <<games, queue, nextId, joined, moved, ticks, lockvars>>

\* make_move handler
MakeMove(game_id, move_req) ==
    /\ IF game_id = Malformed
       THEN /\ resp' = [op |-> "make_move", game_id |-> game_id,
                        player_id |-> move_req.player_id,
                        status |-> "BAD_REQUEST", result |-> [kind |-> "Unparsed"]]
            /\ UNCHANGED <<games, moved>>
       ELSE LET out == make_move(games, game_id, move_req) IN
            /\ games' = out.games
            /\ resp' = [op |-> "make_move", game_id |-> game_id,
                        player_id |-> move_req.player_id,
                        status |-> IF out.result.kind = "Ok" THEN "OK" ELSE "BAD_REQUEST",
                        result |-> out.result]
            /\ moved' = IF out.result.kind = "Ok" /\ out.result.success
                        THEN moved + 1 ELSE moved
    /\ UNCHANGED <<queue, nextId, joined, ticks, lockvars>>

\* get_game_status handler
GetGameStatus(game_id) ==
    /\ resp' = IF game_id = Malformed
               THEN [op |-> "get_game_status", game_id |-> game_id,
                     status |-> "BAD_REQUEST", result |-> [kind |-> "Unparsed"]]
               ELSE LET result == get_game_status(games, game_id) IN
                    [op |-> "get_game_status", game_id |-> game_id,
                     status |-> IF result.kind = "Ok" THEN "OK" ELSE "NOT_FOUND",
                     result |-> result]
    /\ UNCHANGED <<games, queue, nextId, joined, moved, ticks, lockvars>>

\* one round of the loop of move_increment_task
IncrementMoves ==
    /\ games' = increment_moves(games)
    /\ resp' = [op |-> "increment_moves"]
    /\ UNCHANGED <<queue, nextId, joined, moved, lockvars>>

----------------------------------------------------------------------------
(* The inputs of the requests *)

\* ids a request can name: a game's, its players', a waiting player's, the nil
\* uuid (never issued) and, for the game id, a string that is no uuid
GameIdInputs == DOMAIN games \cup {NilUuid, Malformed}
PlayersOf(gms) == UNION {{gms[g].player1.id, gms[g].player2.id} : g \in DOMAIN gms}
PlayerIdInputs == PlayersOf(games) \cup {queue[i] : i \in 1 .. Len(queue)} \cup {NilUuid}

\* The requests a specification draws its moves from: every move of `moves` by
\* each player of each game, and `probe` under every pairing of the ids above
\* (an unknown or malformed game, a player of no game or of another game)
MoveRequests(moves, probe) ==
    {[game_id |-> g, player_id |-> p, from |-> m[1], to |-> m[2]] :
        <<g, p, m>> \in {x \in (DOMAIN games) \X PlayersOf(games) \X moves :
                            x[2] \in {games[x[1]].player1.id, games[x[1]].player2.id}}}
    \cup {[game_id |-> g, player_id |-> p, from |-> probe[1], to |-> probe[2]] :
        <<g, p>> \in GameIdInputs \X PlayerIdInputs}

\* Spec: the steps of the b-file pawns, and probes of an empty square, of the
\* other side's man, of a step no pawn makes and of a square off the board
ProbeFile == 1
SpecSquares ==
    {<<1, ProbeFile>>, <<2, ProbeFile>>, <<3, ProbeFile>>, <<4, ProbeFile>>,
     <<5, ProbeFile>>, <<6, ProbeFile>>, <<BoardSize, ProbeFile>>}
SpecMoves == {m \in SpecSquares \X SpecSquares : m[1] # m[2]}
SpecProbe == <<<<1, ProbeFile>>, <<2, ProbeFile>>>>

\* SpecRegistry: the first step of either b-file pawn, and the probes those
\* four squares give
RegSquares == {<<1, ProbeFile>>, <<2, ProbeFile>>, <<5, ProbeFile>>, <<6, ProbeFile>>}
RegMoves == {m \in RegSquares \X RegSquares : m[1] # m[2]}

\* SpecBoard: every pair of squares of the a- and b-files, and one row and one
\* column off the board
BoardFiles == {0, 1}
FileSquares == (0 .. (BoardSize - 1)) \X BoardFiles
OffBoard == {<<BoardSize, 0>>, <<0, BoardSize>>}
BoardSquares == FileSquares \cup OffBoard
BoardMoves == BoardSquares \X BoardSquares

----------------------------------------------------------------------------
(* Spec: the whole server, every handler atomic *)

Next ==
    \/ joined < MaxPlayers /\ JoinQueue
    \/ \E game_id \in GameIdInputs, player_id \in PlayerIdInputs : GetBoard(game_id, player_id)
    \/ \E r \in MoveRequests(SpecMoves, SpecProbe) :
            /\ MakeMove(r.game_id, MoveRequest(r.player_id, r.from, r.to))
            /\ moved' <= MaxMoves
    \/ \E game_id \in GameIdInputs : GetGameStatus(game_id)
    \/ IncrementMoves /\ UNCHANGED ticks

Spec == Init /\ [][Next]_vars

----------------------------------------------------------------------------
(* SpecRegistry: several games side by side; the rounds of the increment    *)
(* task are counted and capped to keep the games' economies few             *)

NextRegistry ==
    \/ joined < MaxJoins /\ JoinQueue
    \/ \E game_id \in GameIdInputs, player_id \in PlayerIdInputs : GetBoard(game_id, player_id)
    \/ \E r \in MoveRequests(RegMoves, SpecProbe) :
            /\ MakeMove(r.game_id, MoveRequest(r.player_id, r.from, r.to))
            /\ moved' <= MaxRegMoves
    \/ \E game_id \in GameIdInputs : GetGameStatus(game_id)
    \/ ticks < MaxTicks /\ IncrementMoves /\ ticks' = ticks + 1

SpecRegistry == Init /\ [][NextRegistry]_vars

----------------------------------------------------------------------------
(* SpecBoard: moves and views on one game after an opening that brings the *)
(* two sides into contact on the a- and b-files: a2-a3, b7-b6, four rounds  *)
(* of the increment task, a3-a4, b6-b5, four rounds more.  The opening is   *)
(* played with the storage's own operations, so the game is one the server  *)
(* reaches, and each player holds one move point when SpecBoard starts.     *)

Tick == [op |-> "tick"]
Play(player_id, from, to) == [op |-> "move", req |-> MoveRequest(player_id, from, to)]

Opening ==
    <<Play(1, <<1, 0>>, <<2, 0>>), Play(2, <<6, 1>>, <<5, 1>>), Tick, Tick, Tick, Tick,
      Play(1, <<2, 0>>, <<3, 0>>), Play(2, <<5, 1>>, <<4, 1>>), Tick, Tick, Tick, Tick>>

RECURSIVE Played(_, _, _)
Played(gms, game_id, steps) ==
    IF steps = <<>> THEN gms
    ELSE Played(IF Head(steps).op = "tick" THEN increment_moves(gms)
                ELSE make_move(gms, game_id, Head(steps).req).games,
                game_id, Tail(steps))

InitBoard ==
    LET first == join_queue(<<>>, <<>>, 1, 2)
        second == join_queue(first.games, first.queue, 2, 3)
    IN  /\ games = Played(second.games, second.game_id, Opening)
        /\ queue = second.queue
        /\ nextId = 4
        /\ resp = [op |-> "increment_moves"]
        /\ joined = 2
        /\ moved = 0
        /\ ticks = 0
        /\ LockInit

NextBoard ==
    \/ \E game_id \in GameIdInputs, player_id \in PlayerIdInputs : GetBoard(game_id, player_id)
    \/ \E r \in MoveRequests(BoardMoves, SpecProbe) :
            /\ MakeMove(r.game_id, MoveRequest(r.player_id, r.from, r.to))
            /\ moved' <= MaxBoardMoves
    \/ \E game_id \in GameIdInputs : GetGameStatus(game_id)

SpecBoard == InitBoard /\ [][NextBoard]_vars

----------------------------------------------------------------------------
(* SpecFog: two games side by side, each as create_game makes it, with the  *)
(* views, the statuses and the moves of their four players.  No round of    *)
(* the increment task runs, so each player makes one move at most; Black's  *)
(* b- and c-pawns step where White does not see them, and White's a-pawn    *)
(* where Black does not see it.                                             *)

FogMoves ==
    {<<<<1, 0>>, <<2, 0>>>>, <<<<6, 1>>, <<5, 1>>>>, <<<<6, 2>>, <<5, 2>>>>}

InitFog ==
    LET first == join_queue(<<>>, <<>>, 1, 2)
        second == join_queue(first.games, first.queue, 2, 3)
        third == join_queue(second.games, second.queue, 4, 5)
        fourth == join_queue(third.games, third.queue, 5, 6)
    IN  /\ games = fourth.games
        /\ queue = fourth.queue
        /\ nextId = 7
        /\ resp = [op |-> "join_queue", status |-> "OK",
                   result |-> [kind |-> "Ok", player_id |-> fourth.player_id,
                               game_id |-> fourth.game_id, message |-> fourth.message]]
        /\ joined = 4
        /\ moved = 0
        /\ ticks = 0
        /\ LockInit

NextFog ==
    \/ \E game_id \in GameIdInputs, player_id \in PlayerIdInputs : GetBoard(game_id, player_id)
    \/ \E r \in MoveRequests(FogMoves, SpecProbe) :
            MakeMove(r.game_id, MoveRequest(r.player_id, r.from, r.to))
    \/ \E game_id \in GameIdInputs : GetGameStatus(game_id)

SpecFog == InitFog /\ [][NextFog]_vars

----------------------------------------------------------------------------
(* SpecPieces: the board functions on drawn positions.  A game holds a      *)
(* board with one man of any kind and color, and up to two pawns around it: *)
(* none, one pawn of either color within two squares, or two pawns one and  *)
(* two squares away along one line.  Players that hold a move point move    *)
(* the men that stand on the squares the positions are drawn on, to every   *)
(* square of the board and to one row and one column off it.                *)

PieceAt(piece, color, at) == [piece |-> piece, color |-> color, at |-> at]

\* the board that holds the men of `placed` and nothing else
Placed(placed) ==
    [r \in Idx |-> [c \in Idx |->
        IF \E x \in placed : x.at = <<r, c>>
        THEN LET x == CHOOSE y \in placed : y.at = <<r, c>>
             IN  ExtendedSlot(x.piece, x.color)
        ELSE NewBoard[r][c]]]

\* every kind in the middle of the board, and the pawns next to and on the
\* last row of their march
MoverSquares == {<<3, 3>>, <<6, 3>>, <<7, 3>>, <<1, 3>>, <<0, 3>>}
Movers ==
    {PieceAt(piece, color, <<3, 3>>) : piece \in ChestPiece, color \in PlayerColor}
    \cup {PieceAt("Pawn", White, <<6, 3>>), PieceAt("Pawn", White, <<7, 3>>),
          PieceAt("Pawn", Black, <<1, 3>>), PieceAt("Pawn", Black, <<0, 3>>)}

OnBoard(sq) == sq[1] \in Idx /\ sq[2] \in Idx
Directions == ({-1, 0, 1} \X {-1, 0, 1}) \ {<<0, 0>>}
Near(at) ==
    {sq \in Idx \X Idx : sq # at /\ Abs(sq[1] - at[1]) <= 2 /\ Abs(sq[2] - at[2]) <= 2}

Arrangements(at) ==
    {{}}
    \cup {{PieceAt("Pawn", color, sq)} : color \in PlayerColor, sq \in Near(at)}
    \cup {{PieceAt("Pawn", x[2], <<at[1] + x[1][1], at[2] + x[1][2]>>),
           PieceAt("Pawn", x[3], <<at[1] + 2 * x[1][1], at[2] + 2 * x[1][2]>>)} :
            x \in {y \in Directions \X PlayerColor \X PlayerColor :
                        OnBoard(<<at[1] + 2 * y[1][1], at[2] + 2 * y[1][2]>>)}}

InitPieces ==
    \E mover \in Movers : \E others \in Arrangements(mover.at) :
        LET first == join_queue(<<>>, <<>>, 1, 2)
            second == join_queue(first.games, first.queue, 2, 3)
        IN  /\ games = [second.games EXCEPT ![second.game_id].board = Placed({mover} \cup others)]
            /\ queue = second.queue
            /\ nextId = 4
            /\ resp = [op |-> "join_queue", status |-> "OK",
                       result |-> [kind |-> "Ok", player_id |-> second.player_id,
                                   game_id |-> second.game_id, message |-> second.message]]
            /\ joined = 2
            /\ moved = 0
            /\ ticks = 0
            /\ LockInit

Dests == (Idx \X Idx) \cup {<<BoardSize, 3>>, <<3, BoardSize>>}

\* the moves of the players that hold a move point, from the drawn squares
\* that hold one of their men
PieceRequests ==
    {[game_id |-> x[1], player_id |-> games[x[1]][x[2]].id, from |-> x[3], to |-> x[4]] :
        x \in {y \in (DOMAIN games) \X {"player1", "player2"} \X MoverSquares \X Dests :
                /\ remaining_moves_of(games[y[1]].game, y[2] = "player1") > 0
                /\ games[y[1]].board[y[3][1]][y[3][2]].color = games[y[1]][y[2]].color}}

NextPieces ==
    \E r \in PieceRequests : MakeMove(r.game_id, MoveRequest(r.player_id, r.from, r.to))

SpecPieces == InitPieces /\ [][NextPieces]_vars

----------------------------------------------------------------------------
(* SpecSight: the views of both players on the drawn positions that hold a  *)
(* Scout, a Rook or one of the edge pawns, before and after their moves.    *)
(* The Scout is the one kind that sees three squares far, and the Rook      *)
(* carries the sight of the other kinds to every edge of the board.         *)

SightMen == {"Scout", "Rook"}

InitSight ==
    /\ InitPieces
    /\ \A g \in DOMAIN games : games[g].board[3][3].piece \in SightMen \cup {None.piece}

NextSight ==
    \/ \E g \in DOMAIN games, who \in {"player1", "player2"} : GetBoard(g, games[g][who].id)
    \/ \E r \in PieceRequests : MakeMove(r.game_id, MoveRequest(r.player_id, r.from, r.to))

SpecSight == InitSight /\ [][NextSight]_vars

----------------------------------------------------------------------------
(* SpecLock: two request handlers and the increment task run at once on an  *)
(* empty storage, with the RwLock modelled.  A handler takes its guard,     *)
(* runs the body of the storage call in the steps in which the body writes  *)
(* the storage, and drops the guard when it returns.  A request whose game  *)
(* id does not parse returns before the lock and is left out.               *)

Reads == {"get_board", "get_game_status"}

\* LockMode with make_move under storage.read()
LockMode_move_reads(op) ==
    IF op \in {"join_queue", "increment_moves"} THEN "write" ELSE "read"

\* the guard each operation takes: storage.write().await or storage.read().await
LockMode(op) ==
    IF op \in {"join_queue", "make_move", "increment_moves"} THEN "write" ELSE "read"

\* tokio::sync::RwLock: write() waits for the lock to be free, read() for no writer
CanAcquire(mode) ==
    IF mode = "write" THEN lock.writer = "none" /\ lock.readers = {}
    ELSE lock.writer = "none"

Acquired(p, mode) ==
    IF mode = "write" THEN [lock EXCEPT !.writer = p]
    ELSE [lock EXCEPT !.readers = @ \cup {p}]

\* the guard goes out of scope
Dropped(p) ==
    [writer |-> IF lock.writer = p THEN "none" ELSE lock.writer,
     readers |-> lock.readers \ {p}]

\* SpecLock: the first step of White's b-file pawn, which Black is refused
LockMoves == {<<<<1, ProbeFile>>, <<2, ProbeFile>>>>}

SeatsOf(gms) ==
    {x \in (DOMAIN gms) \X PlayersOf(gms) : x[2] \in {gms[x[1]].player1.id, gms[x[1]].player2.id}}

\* the requests a handler can receive: a join, a view and a move for each game
\* and each of its players, a status for each game, and a move in a game that
\* does not exist
LockRequests ==
    {[op |-> "join_queue"] : x \in {y \in {joined} : y < MaxLockJoins}}
    \cup {[op |-> "get_board", game_id |-> x[1], player_id |-> x[2]] :
            x \in SeatsOf(games)}
    \cup {[op |-> "make_move", game_id |-> x[1], move_req |-> MoveRequest(x[2], x[3][1], x[3][2])] :
            x \in {y \in ((DOMAIN games) \X PlayersOf(games) \X LockMoves)
                         \cup {<<NilUuid, NilUuid, SpecProbe>>} :
                    /\ moved < MaxLockMoves
                    /\ y[1] # NilUuid => <<y[1], y[2]>> \in SeatsOf(games)}}
    \cup {[op |-> "get_game_status", game_id |-> g] : g \in DOMAIN games}

\* a handler is called with a request, or the interval fires, and the guard is taken
Begin(p, request) ==
    /\ pc[p] = "idle"
    /\ CanAcquire(LockMode(request.op))
    /\ lock' = Acquired(p, LockMode(request.op))
    /\ pc' = [pc EXCEPT ![p] = "locked"]
    /\ job' = [job EXCEPT ![p] = request]
    /\ stable' = IF request.op \in Reads THEN stable
                 ELSE [held |-> TRUE, games |-> games, queue |-> queue]
    /\ UNCHANGED <<games, queue, nextId, resp, joined, moved, ticks>>

\* the handler returns: the guard is dropped
Return(p) ==
    /\ lock' = Dropped(p)
    /\ pc' = [pc EXCEPT ![p] = "idle"]
    /\ job' = [job EXCEPT ![p] = Idle]
    /\ stable' = IF job[p].op \in Reads THEN stable ELSE Settled

\* get_board and get_game_status under the read guard
ReadBody(p) ==
    /\ pc[p] = "locked"
    /\ job[p].op \in Reads
    /\ IF job[p].op = "get_board"
       THEN GetBoard(job[p].game_id, job[p].player_id)!1
       ELSE GetGameStatus(job[p].game_id)!1
    /\ UNCHANGED <<games, queue, nextId, joined, moved, ticks>>
    /\ Return(p)

\* join_queue, the else arm: the player is pushed
JoinPush(p) ==
    /\ pc[p] = "locked"
    /\ job[p].op = "join_queue"
    /\ Len(queue) = 0
    /\ LET out == join_queue(games, queue, nextId, nextId + 1) IN
        /\ games' = out.games
        /\ queue' = out.queue
        /\ resp' = [op |-> "join_queue", status |-> "OK",
                    result |-> [kind |-> "Ok", player_id |-> out.player_id,
                                game_id |-> out.game_id, message |-> out.message]]
    /\ nextId' = nextId + 1
    /\ joined' = joined + 1
    /\ UNCHANGED <<moved, ticks>>
    /\ Return(p)

\* join_queue, the if arm up to self.queue.pop()
JoinPop(p) ==
    /\ pc[p] = "locked"
    /\ job[p].op = "join_queue"
    /\ Len(queue) > 0
    /\ queue' = SubSeq(queue, 1, Len(queue) - 1)
    /\ nextId' = nextId + 1
    /\ job' = [job EXCEPT ![p] = [op |-> "join_queue", player_id |-> nextId,
                                  waiting_player |-> queue[Len(queue)]]]
    /\ pc' = [pc EXCEPT ![p] = "mid"]
    /\ UNCHANGED <<games, resp, joined, moved, ticks, lock, stable>>

\* join_queue, the if arm from create_game on
JoinCreate(p) ==
    /\ pc[p] = "mid"
    /\ job[p].op = "join_queue"
    /\ games' = games @@ (nextId :> create_game(job[p].waiting_player, job[p].player_id, nextId))
    /\ nextId' = nextId + 1
    /\ resp' = [op |-> "join_queue", status |-> "OK",
                result |-> [kind |-> "Ok", player_id |-> job[p].player_id,
                            game_id |-> nextId, message |-> "Game started!"]]
    /\ joined' = joined + 1
    /\ UNCHANGED <<queue, moved, ticks>>
    /\ Return(p)

\* make_move up to the return of board.make_move with Ok: the board is written
MoveApply(p) ==
    /\ pc[p] = "locked"
    /\ job[p].op = "make_move"
    /\ LET out == make_move(games, job[p].game_id, job[p].move_req) IN
        /\ out.result.kind = "Ok" /\ out.result.success
        /\ games' = [games EXCEPT ![job[p].game_id].board = out.games[job[p].game_id].board]
    /\ pc' = [pc EXCEPT ![p] = "mid"]
    /\ UNCHANGED <<queue, nextId, resp, joined, moved, ticks, lock, job, stable>>

\* make_move, every return but the one of the Ok arm
MoveReject(p) ==
    /\ pc[p] = "locked"
    /\ job[p].op = "make_move"
    /\ LET out == make_move(games, job[p].game_id, job[p].move_req) IN
        /\ ~(out.result.kind = "Ok" /\ out.result.success)
        /\ games' = out.games
        /\ resp' = [op |-> "make_move", game_id |-> job[p].game_id,
                    player_id |-> job[p].move_req.player_id,
                    status |-> IF out.result.kind = "Ok" THEN "OK" ELSE "BAD_REQUEST",
                    result |-> out.result]
    /\ UNCHANGED <<queue, nextId, joined, moved, ticks>>
    /\ Return(p)

\* make_move, the Ok arm: the move point is consumed and the response built
MoveConsume(p) ==
    /\ pc[p] = "mid"
    /\ job[p].op = "make_move"
    /\ LET game_state == games[job[p].game_id]
           is_player1 == player_slot(game_state, job[p].move_req.player_id) = "player1"
           game == consume_move_point(game_state.game, is_player1)
       IN  /\ games' = [games EXCEPT ![job[p].game_id].game = game]
           /\ resp' = [op |-> "make_move", game_id |-> job[p].game_id,
                       player_id |-> job[p].move_req.player_id,
                       status |-> "OK",
                       result |-> MoveResponse(TRUE, "Move successful",
                                               remaining_moves_of(game, is_player1))]
    /\ moved' = moved + 1
    /\ UNCHANGED <<queue, nextId, joined, ticks>>
    /\ Return(p)

\* the games the loop of increment_moves has still to visit
Todo(p) == IF pc[p] = "locked" THEN DOMAIN games ELSE job[p].todo

\* increment_moves: the body of the loop for the next game of values_mut()
TickLoop(p) ==
    /\ pc[p] # "idle"
    /\ job[p].op = "increment_moves"
    /\ \E g \in Todo(p) :
        /\ games' = [games EXCEPT ![g].game = increment_game(@)]
        /\ job' = [job EXCEPT ![p] = [op |-> "increment_moves", todo |-> Todo(p) \ {g}]]
    /\ pc' = [pc EXCEPT ![p] = "mid"]
    /\ UNCHANGED <<queue, nextId, resp, joined, moved, ticks, lock, stable>>

\* increment_moves returns and the round of move_increment_task ends
TickEnd(p) ==
    /\ pc[p] # "idle"
    /\ job[p].op = "increment_moves"
    /\ Todo(p) = {}
    /\ resp' = [op |-> "increment_moves"]
    /\ ticks' = ticks + 1
    /\ UNCHANGED <<games, queue, nextId, joined, moved>>
    /\ Return(p)

NextLock ==
    \/ \E p \in Handlers, request \in LockRequests : Begin(p, request)
    \/ ticks < MaxLockTicks /\ Begin(TickTask, [op |-> "increment_moves"])
    \/ \E p \in Handlers : ReadBody(p)
    \/ \E p \in Handlers : JoinPush(p)
    \/ \E p \in Handlers : JoinPop(p)
    \/ \E p \in Handlers : JoinCreate(p)
    \/ \E p \in Handlers : MoveApply(p)
    \/ \E p \in Handlers : MoveReject(p)
    \/ \E p \in Handlers : MoveConsume(p)
    \/ TickLoop(TickTask)
    \/ TickEnd(TickTask)

SpecLock == Init /\ [][NextLock]_vars

----------------------------------------------------------------------------
(* SpecRace: two request handlers run at once, with the RwLock modelled, on *)
(* one game after an opening that lets both players move to one square:     *)
(* Nb1-c3, b7-b6, four rounds of the increment task, h2-h3, the Scout of b8 *)
(* to b7, four rounds more.  White's Knight, Black's b-pawn and Black's     *)
(* Scout can then each move to b5, and each player holds one move point.    *)

RaceOpening ==
    <<Play(1, <<0, 1>>, <<2, 2>>), Play(2, <<6, 1>>, <<5, 1>>), Tick, Tick, Tick, Tick,
      Play(1, <<1, 7>>, <<2, 7>>), Play(2, <<7, 1>>, <<6, 1>>), Tick, Tick, Tick, Tick>>

RaceSquare == <<4, 1>>
RaceMoves == {<<<<2, 2>>, RaceSquare>>, <<<<5, 1>>, RaceSquare>>, <<<<6, 1>>, RaceSquare>>}

RaceStart ==
    LET first == join_queue(<<>>, <<>>, 1, 2)
        second == join_queue(first.games, first.queue, 2, 3)
    IN  Played(second.games, second.game_id, RaceOpening)

InitRace ==
    /\ games = RaceStart
    /\ queue = <<>>
    /\ nextId = 4
    /\ resp = [op |-> "increment_moves"]
    /\ joined = 2
    /\ moved = 0
    /\ ticks = 0
    /\ LockInit

\* the requests a handler can receive: a view and each of the moves for each
\* player, and the status of the game
RaceRequests ==
    {[op |-> "get_board", game_id |-> x[1], player_id |-> x[2]] : x \in SeatsOf(games)}
    \cup {[op |-> "make_move", game_id |-> x[1][1],
            move_req |-> MoveRequest(x[1][2], x[2][1], x[2][2])] :
            x \in SeatsOf(games) \X RaceMoves}
    \cup {[op |-> "get_game_status", game_id |-> g] : g \in DOMAIN games}

NextRace ==
    \/ \E p \in Handlers, request \in RaceRequests : Begin(p, request)
    \/ \E p \in Handlers : ReadBody(p)
    \/ \E p \in Handlers : MoveApply(p)
    \/ \E p \in Handlers : MoveReject(p)
    \/ \E p \in Handlers : MoveConsume(p)

SpecRace == InitRace /\ [][NextRace]_vars

----------------------------------------------------------------------------
(* SpecRegen: one game from the moment create_game has made it, with the    *)
(* rounds of the increment task counted.  White may step its b-file pawn    *)
(* and ask for the status; Black sends no move, so Black's economy is the   *)
(* one of a player who does not move.                                       *)

InitRegen ==
    LET first == join_queue(<<>>, <<>>, 1, 2)
        second == join_queue(first.games, first.queue, 2, 3)
    IN  /\ games = second.games
        /\ queue = second.queue
        /\ nextId = 4
        /\ resp = [op |-> "join_queue", status |-> "OK",
                   result |-> [kind |-> "Ok", player_id |-> second.player_id,
                               game_id |-> second.game_id, message |-> second.message]]
        /\ joined = 2
        /\ moved = 0
        /\ ticks = 0
        /\ LockInit

\* the moves of SpecRegen: those of RegMoves, sent by the first player of a game
RegenRequests ==
    {r \in MoveRequests(RegMoves, SpecProbe) :
        r.game_id \in DOMAIN games /\ r.player_id = games[r.game_id].player1.id}

NextRegen ==
    \/ \E r \in RegenRequests :
            /\ MakeMove(r.game_id, MoveRequest(r.player_id, r.from, r.to))
            /\ moved' <= MaxRegenMoves
    \/ \E game_id \in DOMAIN games : GetGameStatus(game_id)
    \/ ticks < MaxRegenTicks /\ IncrementMoves /\ ticks' = ticks + 1

SpecRegen == InitRegen /\ [][NextRegen]_vars

----------------------------------------------------------------------------
(* SpecLive: one game as create_game makes it, two request handlers and the *)
(* increment task on the lock, the rounds of the task not counted.  The     *)
(* task sleeps on its interval, then waits for the write guard, and tokio's *)
(* RwLock is fair: it queues its waiters, so that a request that comes      *)
(* while the task waits takes its guard after the task.  The handlers send  *)
(* statuses and the first steps of the b-file pawns; the bodies of the      *)
(* handlers and of the task do not suspend, so every one of them that has   *)
(* begun runs to its return.                                                *)

\* SpecLive: the first step of either b-file pawn
LiveMoves ==
    {<<<<1, ProbeFile>>, <<2, ProbeFile>>>>, <<<<6, ProbeFile>>, <<5, ProbeFile>>>>}

\* the requests a handler can receive in SpecLive: each of the two moves by
\* each player of the game, and the status of the game
LiveRequests ==
    {[op |-> "make_move", game_id |-> x[1], move_req |-> MoveRequest(x[2], x[3][1], x[3][2])] :
        x \in {y \in (DOMAIN games) \X PlayersOf(games) \X LiveMoves :
                /\ moved < MaxLiveMoves
                /\ <<y[1], y[2]>> \in SeatsOf(games)}}
    \cup {[op |-> "get_game_status", game_id |-> g] : g \in DOMAIN games}

\* a handler is called while the task does not wait for the guard
LiveBegin(p, request) ==
    /\ pc[TickTask] # "waiting"
    /\ Begin(p, request)

\* interval.tick().await returns: the task asks for the write guard
TickWake(p) ==
    /\ pc[p] = "idle"
    /\ pc' = [pc EXCEPT ![p] = "waiting"]
    /\ UNCHANGED <<games, queue, nextId, resp, joined, moved, ticks, lock, job, stable>>

\* storage.write().await returns: the task holds the guard
TickAcquire(p) ==
    /\ pc[p] = "waiting"
    /\ CanAcquire(LockMode("increment_moves"))
    /\ lock' = Acquired(p, LockMode("increment_moves"))
    /\ pc' = [pc EXCEPT ![p] = "locked"]
    /\ job' = [job EXCEPT ![p] = [op |-> "increment_moves"]]
    /\ stable' = [held |-> TRUE, games |-> games, queue |-> queue]
    /\ UNCHANGED <<games, queue, nextId, resp, joined, moved, ticks>>

\* increment_moves returns and the round ends, the round not counted
TickReturn(p) ==
    /\ pc[p] # "idle"
    /\ job[p].op = "increment_moves"
    /\ Todo(p) = {}
    /\ resp' = [op |-> "increment_moves"]
    /\ UNCHANGED <<games, queue, nextId, joined, moved, ticks>>
    /\ Return(p)

\* a handler that holds its guard runs its body to the return
HandlerRuns(p) ==
    ReadBody(p) \/ MoveApply(p) \/ MoveReject(p) \/ MoveConsume(p)

NextLive ==
    \/ \E p \in Handlers, request \in LiveRequests : LiveBegin(p, request)
    \/ TickWake(TickTask)
    \/ TickAcquire(TickTask)
    \/ \E p \in Handlers : ReadBody(p)
    \/ \E p \in Handlers : MoveApply(p)
    \/ \E p \in Handlers : MoveReject(p)
    \/ \E p \in Handlers : MoveConsume(p)
    \/ TickLoop(TickTask)
    \/ TickReturn(TickTask)

\* the interval fires, the queued writer gets the guard when it is free, and
\* code that holds a guard runs on
FairLive ==
    /\ WF_vars(TickWake(TickTask))
    /\ WF_vars(TickAcquire(TickTask))
    /\ WF_vars(TickLoop(TickTask))
    /\ WF_vars(TickReturn(TickTask))
    /\ \A p \in Handlers : WF_vars(HandlerRuns(p))

SpecLive == InitRegen /\ [][NextLive]_vars /\ FairLive

----------------------------------------------------------------------------
(* The claims *)

PlayerSlots == {"player1", "player2"}

Points(game_state, who) ==
    IF who = "player1" THEN game_state.game.player1_remaining_moves
    ELSE game_state.game.player2_remaining_moves

Countdown(game_state, who) ==
    IF who = "player1" THEN game_state.game.player1_move_increment_countdown
    ELSE game_state.game.player2_move_increment_countdown

\* the response r reports a make_move call that failed in any way
MoveFailed(r) ==
    /\ r.op = "make_move"
    /\ r.result.kind # "Ok" \/ ~r.result.success

\* the response r reports a successful make_move on game g by its player `who`
MoveSucceededBy(r, gms, g, who) ==
    /\ r.op = "make_move"
    /\ r.game_id = g
    /\ r.result.kind = "Ok"
    /\ r.result.success
    /\ r.player_id = gms[g][who].id

\* C1: a make_move call that ends in a failure of any kind (an error, or a
\* response with success = false) leaves every cell of the board as it was.
C1_FailedMoveKeepsBoard ==
    [][MoveFailed(resp') =>
        \A g \in DOMAIN games : games'[g].board = games[g].board]_vars

C1_Witness ==
    /\ MoveFailed(resp)
    /\ resp.result.kind = "Ok"
    /\ resp.result.message = "Cannot capture your own piece"

\* C2: a player's remaining moves go down only in a successful make_move of
\* that player, and then by exactly 1; they go up only in a round of the
\* increment task; every other step leaves them alone, and no make_move changes
\* a countdown.
C2_PointsChangeOnlyByMoveOrTick ==
    [][\A g \in DOMAIN games : \A who \in PlayerSlots :
        LET before == Points(games[g], who)
            after == Points(games'[g], who)
        IN  /\ after < before => MoveSucceededBy(resp', games, g, who)
            /\ MoveSucceededBy(resp', games, g, who) => after = before - 1
            /\ after > before => resp'.op = "increment_moves"
            /\ resp'.op \in {"join_queue", "get_board", "get_game_status"} => after = before
            /\ MoveFailed(resp') => after = before
            /\ resp'.op = "make_move" =>
                    Countdown(games'[g], who) = Countdown(games[g], who)]_vars

C2_Witness ==
    \E g \in DOMAIN games :
        /\ MoveSucceededBy(resp, games, g, "player2")
        /\ resp.result.remaining_moves = 0
        /\ Points(games[g], "player2") = 0
        /\ Points(games[g], "player1") = 1

\* C3: in every reachable state each player of each game has between 0 and 5
\* remaining moves and a countdown between 0 and 3.
C3_EconomyInRange ==
    \A g \in DOMAIN games : \A who \in PlayerSlots :
        /\ Points(games[g], who) \in 0 .. 5
        /\ Countdown(games[g], who) \in 0 .. 3

C3_Witness ==
    \E g \in DOMAIN games :
        /\ Points(games[g], "player1") = 5
        /\ Countdown(games[g], "player1") = 0
        /\ Points(games[g], "player2") = 3
        /\ moved = 2

\* C4: one round of the increment task gives every player of every game exactly
\* one step, computed from that player's own economy: a countdown above 0 goes
\* down by 1 and the moves stay; at 0 the moves become min(moves + 1, 5) and the
\* countdown 3.
C4_TickStep ==
    [][resp'.op = "increment_moves" =>
        /\ DOMAIN games' = DOMAIN games
        /\ \A g \in DOMAIN games : \A who \in PlayerSlots :
            IF Countdown(games[g], who) > 0
            THEN /\ Countdown(games'[g], who) = Countdown(games[g], who) - 1
                 /\ Points(games'[g], who) = Points(games[g], who)
            ELSE /\ Points(games'[g], who) =
                        (IF Points(games[g], who) + 1 > 5 THEN 5
                         ELSE Points(games[g], who) + 1)
                 /\ Countdown(games'[g], who) = 3]_vars

\* a round has run, and one player is at (5, 0), the other below the cap at (4, 0)
C4_Witness ==
    /\ resp.op = "increment_moves"
    /\ \E g \in DOMAIN games :
        /\ Points(games[g], "player1") = 5 /\ Countdown(games[g], "player1") = 0
        /\ Points(games[g], "player2") = 4 /\ Countdown(games[g], "player2") = 0

\* the standard initial position, row by row from row 0
StandardBackRank(color) ==
    IF color = "White"
    THEN <<"Rook", "Knight", "Bishop", "Queen", "King", "Bishop", "Scout", "Rook">>
    ELSE <<"Rook", "Scout", "Bishop", "Queen", "King", "Bishop", "Knight", "Rook">>

StandardPosition ==
    [r \in 0 .. 7 |-> [c \in 0 .. 7 |->
        IF r = 0 THEN [piece |-> StandardBackRank("White")[c + 1], color |-> "White"]
        ELSE IF r = 1 THEN [piece |-> "Pawn", color |-> "White"]
        ELSE IF r = 6 THEN [piece |-> "Pawn", color |-> "Black"]
        ELSE IF r = 7 THEN [piece |-> StandardBackRank("Black")[c + 1], color |-> "Black"]
        ELSE [piece |-> "None", color |-> "None"]]]

QueueIds(q) == {q[i] : i \in 1 .. Len(q)}
WithoutEntry(q, i) == SubSeq(q, 1, i - 1) \o SubSeq(q, i + 1, Len(q))

\* C5: join_queue always succeeds and returns a fresh player id.  On a
\* non-empty queue it removes one waiting entry and in the same step adds one
\* game: the removed entry is player 1 (White), the joining player is player 2
\* (Black), the board is the standard position, both economies are (1, 3), and
\* the game's id is returned.  On an empty queue the player is appended, no game
\* is created and no game id is returned.
C5_Enqueue ==
    [][resp'.op = "join_queue" =>
        LET r == resp'.result IN
        /\ resp'.status = "OK"
        /\ r.kind = "Ok"
        /\ r.player_id \notin PlayersOf(games) \cup QueueIds(queue) \cup DOMAIN games \cup {NilUuid}
        /\ IF Len(queue) > 0
           THEN /\ \E i \in 1 .. Len(queue) :
                    /\ queue' = WithoutEntry(queue, i)
                    /\ games'[r.game_id].player1 = [id |-> queue[i], color |-> "White"]
                /\ r.game_id \notin DOMAIN games \cup {NilUuid}
                /\ DOMAIN games' = DOMAIN games \cup {r.game_id}
                /\ \A g \in DOMAIN games : games'[g] = games[g]
                /\ games'[r.game_id].player2 = [id |-> r.player_id, color |-> "Black"]
                /\ games'[r.game_id].board = StandardPosition
                /\ games'[r.game_id].game.id = r.game_id
                /\ \A who \in PlayerSlots :
                    /\ Points(games'[r.game_id], who) = 1
                    /\ Countdown(games'[r.game_id], who) = 3
           ELSE /\ queue' = Append(queue, r.player_id)
                /\ games' = games
                /\ r.game_id = NilUuid]_vars

\* the fourth join_queue has paired the third player with the fourth
C5_Witness ==
    /\ resp.op = "join_queue"
    /\ resp.result.game_id # NilUuid
    /\ joined = 4
    /\ ticks > 0
    /\ moved > 0

\* C6: after n completed join_queue calls the storage holds floor(n / 2) games
\* and n mod 2 waiting players, whatever else ran in between; and a player
\* leaves the queue in exactly the steps in which a game appears.
C6_Counts ==
    /\ Cardinality(DOMAIN games) = joined \div 2
    /\ Len(queue) = joined % 2

C6_PairingIsOneStep ==
    /\ Len(queue') < Len(queue) <=> DOMAIN games' # DOMAIN games
    /\ DOMAIN games' # DOMAIN games =>
        /\ Cardinality(DOMAIN games' \ DOMAIN games) = 1
        /\ \A g \in DOMAIN games' \ DOMAIN games : games'[g].player1.id \in QueueIds(queue)

C6_GamesAndQueueCount == []C6_Counts /\ [][C6_PairingIsOneStep]_vars

C6_Witness ==
    /\ joined = 4
    /\ Cardinality(DOMAIN games) = 2
    /\ queue = <<>>
    /\ moved > 0
    /\ ticks > 0

\* C7: get_board, make_move and get_game_status on a game id the storage does
\* not hold fail with "Game not found"; get_board and make_move by an id that is
\* neither player of the game fail with "Player not in this game".  Both are
\* errors (never a MoveResponse with success = false) and leave the games and
\* the queue as they were.
C7_StructuralFailures ==
    [][/\ ( /\ resp'.op \in {"get_board", "make_move", "get_game_status"}
            /\ resp'.game_id # Malformed
            /\ resp'.game_id \notin DOMAIN games )
          => /\ resp'.result = [kind |-> "Err", error |-> "Game not found"]
             /\ games' = games /\ queue' = queue
       /\ ( /\ resp'.op \in {"get_board", "make_move"}
            /\ resp'.game_id \in DOMAIN games
            /\ resp'.player_id \notin {games[resp'.game_id].player1.id,
                                       games[resp'.game_id].player2.id} )
          => /\ resp'.result = [kind |-> "Err", error |-> "Player not in this game"]
             /\ games' = games /\ queue' = queue]_vars

\* a player of one game was refused a move on the other game
C7_Witness ==
    /\ resp.op = "make_move"
    /\ resp.result = [kind |-> "Err", error |-> "Player not in this game"]
    /\ resp.player_id \in PlayersOf(games)

Holds(p) == pc[p] # "idle"
Mutates(p) == Holds(p) /\ job[p].op \notin Reads

\* the storage as the last whole operation left it
Whole == IF stable.held THEN [games |-> stable.games, queue |-> stable.queue]
         ELSE [games |-> games, queue |-> queue]

\* a mutating operation holds the storage alone; only reads hold it together
C8_Exclusive ==
    \A p \in Procs : Mutates(p) => \A q \in Procs \ {p} : ~Holds(q)

\* a get_board or get_game_status that returns answers from the storage as a
\* whole operation left it
C8_ReadsSeeWholeOperations ==
    \A p \in Handlers :
        (pc[p] = "locked" /\ job[p].op \in Reads /\ pc'[p] = "idle") =>
            resp'.result = IF job[p].op = "get_board"
                           THEN get_fogged_board(Whole.games, job[p].game_id, job[p].player_id)
                           ELSE get_game_status(Whole.games, job[p].game_id)

\* a mutating operation that returns has taken the storage from one whole
\* operation's result to the next: a whole join_queue, make_move or increment_moves
C8_MutationsAreWhole ==
    \A p \in Procs :
        (Mutates(p) /\ pc'[p] = "idle") =>
            CASE job[p].op = "join_queue" ->
                    \E player_id \in 1 .. nextId, game_id \in 1 .. nextId :
                        LET out == join_queue(Whole.games, Whole.queue, player_id, game_id)
                        IN  games' = out.games /\ queue' = out.queue
              [] job[p].op = "make_move" ->
                    /\ games' = make_move(Whole.games, job[p].game_id, job[p].move_req).games
                    /\ queue' = Whole.queue
              [] OTHER ->
                    /\ games' = increment_moves(Whole.games)
                    /\ queue' = Whole.queue

\* C8: with the handlers and the increment task running at once, a mutating
\* operation (join_queue, make_move, increment_moves) never holds the storage
\* together with any other operation, only get_board and get_game_status
\* overlap, and so every get_board and get_game_status answers from a state
\* between whole operations: never from a move whose board is written and
\* whose point is not yet consumed, nor from a round applied to some games only.
C8_MutationsExcludeAll ==
    /\ []C8_Exclusive
    /\ [][C8_ReadsSeeWholeOperations /\ C8_MutationsAreWhole]_vars

\* the increment task has visited one of two games and not the other, after a
\* successful make_move, and both handlers wait for it
C8_Witness ==
    /\ pc[TickTask] = "mid"
    /\ job[TickTask].todo # {}
    /\ games # Whole.games
    /\ \A p \in Handlers : pc[p] = "idle"
    /\ resp.op = "make_move" /\ resp.result.kind = "Ok" /\ resp.result.success

\* the squares a color sees: a square is seen when it lies within the radius
\* of one of the color's men, 3 for a Scout and 1 for every other kind, in
\* Euclidean distance
visible_squares(slots, color) ==
    {sq \in Idx \X Idx :
        \E own \in Idx \X Idx :
            /\ slots[own[1]][own[2]].color = color
            /\ LET radius == IF slots[own[1]][own[2]].piece = "Scout" THEN 3 ELSE 1
                   dr == sq[1] - own[1]
                   dc == sq[2] - own[2]
               IN  dr * dr + dc * dc <= radius * radius}

\* the view is the requester's color and the board with every unseen cell empty
IsViewOf(view, game_state, who) ==
    /\ view.kind = "Ok"
    /\ view.your_color = game_state[who].color
    /\ DOMAIN view.slots = Idx
    /\ \A row \in Idx :
        /\ DOMAIN view.slots[row] = Idx
        /\ \A col \in Idx :
            view.slots[row][col] =
                IF <<row, col>> \in visible_squares(game_state.board, game_state[who].color)
                THEN game_state.board[row][col]
                ELSE None

\* what get_fogged_board returns for each player of each game
C9_ViewOfEveryPlayer ==
    \A g \in DOMAIN games : \A who \in PlayerSlots :
        IsViewOf(get_fogged_board(games, g, games[g][who].id), games[g], who)

\* get_board answers a player of the game with that view and writes nothing
C9_GetBoardStep ==
    resp'.op = "get_board" =>
        /\ UNCHANGED <<games, queue, nextId>>
        /\ \A g \in DOMAIN games : \A who \in PlayerSlots :
            (resp'.game_id = g /\ resp'.player_id = games[g][who].id) =>
                /\ resp'.status = "OK"
                /\ IsViewOf(resp'.result, games[g], who)

\* C9: for every reachable game and each of its two players, get_board
\* returns the requester's color and an 8x8 grid in which each cell inside the
\* requester's visible squares equals the cell of the true board and each cell
\* outside is empty whatever the true board holds there; get_board changes no
\* state.
C9_FoggedView ==
    /\ []C9_ViewOfEveryPlayer
    /\ [][C9_GetBoardStep]_vars

\* a player was answered a view, after a move, that shows a man of the other
\* side next to the player's own and blanks other men of the other side
C9_Witness ==
    /\ resp.op = "get_board"
    /\ resp.status = "OK"
    /\ moved > 0
    /\ \E row \in Idx, col \in Idx :
        /\ is_some(resp.result.slots[row][col])
        /\ resp.result.slots[row][col].color # resp.result.your_color
    /\ \E row \in Idx, col \in Idx :
        /\ is_none(resp.result.slots[row][col])
        /\ is_some(games[resp.game_id].board[row][col])

\* two games agree for a seat: the same color, the same economies, the same
\* visible squares and the same cells on them
Agree(ga, gb, who) ==
    LET color == games[ga][who].color
        seen == visible_squares(games[ga].board, color)
    IN  /\ games[gb][who].color = color
        /\ \A w \in PlayerSlots :
            /\ Points(games[ga], w) = Points(games[gb], w)
            /\ Countdown(games[ga], w) = Countdown(games[gb], w)
        /\ visible_squares(games[gb].board, color) = seen
        /\ \A sq \in seen : games[ga].board[sq[1]][sq[2]] = games[gb].board[sq[1]][sq[2]]

\* the body of the answer to get_game_status, the game's id apart
StatusBody(gms, game_id) ==
    LET status == get_game_status(gms, game_id)
    IN  <<status.player1_moves, status.player2_moves, status.current_turn>>

SameView(ga, gb, who) ==
    get_fogged_board(games, ga, games[ga][who].id)
        = get_fogged_board(games, gb, games[gb][who].id)

SameStatus(ga, gb) == StatusBody(games, ga) = StatusBody(games, gb)

\* the squares the moves are tried on: the a-, b- and c-files, where the pawns
\* of FogMoves step
FogSquares == Idx \X {0, 1, 2}

SameMoveResult(ga, gb, who, from, to) ==
    make_move(games, ga, MoveRequest(games[ga][who].id, from, to)).result
        = make_move(games, gb, MoveRequest(games[gb][who].id, from, to)).result

\* C10 as stated: for any two game states that agree on the player's color, on
\* both economies and on every square of the player's visible set, get_board,
\* get_game_status and make_move with any from and to return the same response
C10_AsStated ==
    \A ga \in DOMAIN games, gb \in DOMAIN games : \A who \in PlayerSlots :
        (ga < gb /\ Agree(ga, gb, who)) =>
            /\ SameView(ga, gb, who)
            /\ SameStatus(ga, gb)
            /\ \A from \in FogSquares, to \in FogSquares : SameMoveResult(ga, gb, who, from, to)

\* C10, amended: for any two game states that agree on the player's color, on
\* both economies and on every square of the player's visible set, get_board
\* and get_game_status return the same response, and so does make_move with
\* any from and to when the player has no move point left; with a move point,
\* make_move's message can tell the two states apart
C10_ViewAndStatusAgree ==
    \A ga \in DOMAIN games, gb \in DOMAIN games : \A who \in PlayerSlots :
        (ga < gb /\ Agree(ga, gb, who)) =>
            /\ SameView(ga, gb, who)
            /\ SameStatus(ga, gb)
            /\ Points(games[ga], who) = 0 =>
                \A from \in FogSquares, to \in FogSquares : SameMoveResult(ga, gb, who, from, to)

\* a player without move points was answered a view of a game that agrees,
\* for that player, with the other game, whose board is not the same
C10_Witness ==
    /\ resp.op = "get_board"
    /\ resp.status = "OK"
    /\ \E gb \in DOMAIN games \ {resp.game_id}, who \in PlayerSlots :
        /\ games[resp.game_id][who].id = resp.player_id
        /\ Points(games[resp.game_id], who) = 0
        /\ Agree(resp.game_id, gb, who)
        /\ games[gb].board # games[resp.game_id].board

\* C13: a make_move on game g, whether it succeeds or fails, leaves the queue
\* and every other game's board, players and economies unchanged; and a round
\* of increment_moves leaves the queue, every game's board and every game's
\* players unchanged.
C13_OtherGamesUntouched ==
    [][/\ resp'.op = "make_move" =>
            /\ queue' = queue
            /\ DOMAIN games' = DOMAIN games
            /\ \A g \in DOMAIN games : g # resp'.game_id => games'[g] = games[g]
       /\ resp'.op = "increment_moves" =>
            /\ queue' = queue
            /\ DOMAIN games' = DOMAIN games
            /\ \A g \in DOMAIN games :
                /\ games'[g].board = games[g].board
                /\ games'[g].player1 = games[g].player1
                /\ games'[g].player2 = games[g].player2]_vars

\* a move has succeeded on one of two games after a round of the increment
\* task, while a player of the other game still holds the first move point
C13_Witness ==
    /\ resp.op = "make_move"
    /\ resp.result.kind = "Ok" /\ resp.result.success
    /\ ticks > 0
    /\ \E g \in DOMAIN games \ {resp.game_id} :
        /\ games[g].board = StandardPosition
        /\ Points(games[g], "player1") = 1

EmptyAt(slots, sq) == slots[sq[1]][sq[2]].piece = "None"
EnemyAt(slots, sq, color) ==
    slots[sq[1]][sq[2]].piece # "None" /\ slots[sq[1]][sq[2]].color # color

\* make_move by the seat `who` of game g from `from` to `to` answers success
MoveSucceeds(g, who, from, to) ==
    LET out == make_move(games, g, MoveRequest(games[g][who].id, from, to))
    IN  out.result.kind = "Ok" /\ out.result.success

\* the board of game g after that make_move
BoardAfter(g, who, from, to) ==
    make_move(games, g, MoveRequest(games[g][who].id, from, to)).games[g].board

\* for every player that holds a move point and every own man of one of the
\* kinds, make_move to any destination succeeds exactly when Rule holds
RuleDecides(kinds, Rule(_, _, _, _)) ==
    \A g \in DOMAIN games : \A who \in PlayerSlots :
        Points(games[g], who) > 0 =>
            \A from \in Idx \X Idx :
                LET man == games[g].board[from[1]][from[2]] IN
                (man.piece \in kinds /\ man.color = games[g][who].color) =>
                    \A to \in Dests :
                        MoveSucceeds(g, who, from, to) <=> Rule(games[g].board, man, from, to)

\* the step is a successful make_move: the square left and the square reached
MoveStep(g) ==
    /\ resp'.op = "make_move"
    /\ resp'.game_id = g
    /\ resp'.result.kind = "Ok" /\ resp'.result.success
    /\ moved' = moved + 1
SquareLeft(g) ==
    CHOOSE sq \in Idx \X Idx :
        games[g].board[sq[1]][sq[2]].piece # "None" /\ games'[g].board[sq[1]][sq[2]].piece = "None"
SquareReached(g) ==
    CHOOSE sq \in Idx \X Idx :
        /\ games'[g].board[sq[1]][sq[2]] # games[g].board[sq[1]][sq[2]]
        /\ games'[g].board[sq[1]][sq[2]].piece # "None"

\* every successful make_move of a man of one of the kinds obeys Rule
RuleObeyed(kinds, Rule(_, _, _, _)) ==
    \A g \in DOMAIN games :
        (MoveStep(g) /\ games[g].board[SquareLeft(g)[1]][SquareLeft(g)[2]].piece \in kinds) =>
            Rule(games[g].board, games[g].board[SquareLeft(g)[1]][SquareLeft(g)[2]],
                 SquareLeft(g), SquareReached(g))

\* one row forward, straight onto an empty square or diagonally onto an enemy
PawnRule(slots, man, from, to) ==
    /\ OnBoard(to)
    /\ to[1] - from[1] = (IF man.color = "White" THEN 1 ELSE -1)
    /\ \/ to[2] = from[2] /\ EmptyAt(slots, to)
       \/ Abs(to[2] - from[2]) = 1 /\ EnemyAt(slots, to, man.color)

\* a pawn that make_move moves is a pawn where it arrives
PawnStaysPawn ==
    \A g \in DOMAIN games : \A who \in PlayerSlots : \A from \in Idx \X Idx :
        LET man == games[g].board[from[1]][from[2]] IN
        (man.piece = "Pawn" /\ man.color = games[g][who].color) =>
            \A to \in Idx \X Idx :
                MoveSucceeds(g, who, from, to) => BoardAfter(g, who, from, to)[to[1]][to[2]] = man

\* C16: for a player with at least one move point moving an own Pawn, the move
\* succeeds exactly when the destination is on the board, lies one row forward
\* (row + 1 for White, row - 1 for Black) and either is in the same column and
\* empty or is in an adjacent column and holds an enemy man; so a two-row
\* step, a sideways or backward step, a forward step onto an occupied square
\* and a diagonal step onto an empty or own square fail; and a pawn that
\* reaches the far row stays a Pawn.
C16_PawnMoves ==
    /\ [](RuleDecides({"Pawn"}, PawnRule) /\ PawnStaysPawn)
    /\ [][RuleObeyed({"Pawn"}, PawnRule)]_vars

\* a White pawn has stepped onto the last row and is a Pawn there
C16_Witness ==
    \E g \in DOMAIN games, c \in Idx :
        /\ MoveSucceededBy(resp, games, g, "player1")
        /\ games[g].board[7][c] = [piece |-> "Pawn", color |-> "White"]
        /\ EmptyAt(games[g].board, <<6, 3>>)

\* the own men of the kinds, with the player that may move them and their square
OwnMen(kinds) ==
    {<<g, who, from>> \in (DOMAIN games) \X PlayerSlots \X (Idx \X Idx) :
        /\ games[g].board[from[1]][from[2]].piece \in kinds
        /\ games[g].board[from[1]][from[2]].color = games[g][who].color
        /\ Points(games[g], who) > 0}

SquaredDistance(from, to) ==
    (to[1] - from[1]) * (to[1] - from[1]) + (to[2] - from[2]) * (to[2] - from[2])

\* the squares strictly between two squares of a row, a column or a diagonal
Between(from, to) ==
    LET n == IF Abs(to[1] - from[1]) > Abs(to[2] - from[2])
             THEN Abs(to[1] - from[1]) ELSE Abs(to[2] - from[2])
    IN  {<<from[1] + k * Signum(to[1] - from[1]), from[2] + k * Signum(to[2] - from[2])>> :
            k \in 1 .. (n - 1)}

\* one or two squares away in any direction, onto an empty square
ScoutRule(slots, man, from, to) ==
    /\ OnBoard(to)
    /\ SquaredDistance(from, to) >= 1 /\ SquaredDistance(from, to) <= 4
    /\ EmptyAt(slots, to)

\* make_move of a Scout onto an occupied square fails and leaves the board as it was
ScoutTakesNothing ==
    \A m \in OwnMen({"Scout"}) :
        \A to \in Idx \X Idx :
            ~EmptyAt(games[m[1]].board, to) =>
                /\ ~MoveSucceeds(m[1], m[2], m[3], to)
                /\ BoardAfter(m[1], m[2], m[3], to) = games[m[1]].board

\* C17: for a player with at least one move point moving an own Scout, the
\* move succeeds exactly when the destination is on the board, the
\* displacement satisfies 1 <= dr^2 + dc^2 <= 4 and the destination is empty,
\* whatever stands between the two squares; a Scout move onto an occupied
\* square, enemy or own, fails and takes nothing.
C17_ScoutMoves ==
    /\ [](RuleDecides({"Scout"}, ScoutRule) /\ ScoutTakesNothing)
    /\ [][RuleObeyed({"Scout"}, ScoutRule)]_vars

\* a Scout has jumped from (3, 3) over an occupied square to a square two away
C17_Witness ==
    \E g \in DOMAIN games, who \in PlayerSlots, d \in Directions :
        /\ MoveSucceededBy(resp, games, g, who)
        /\ EmptyAt(games[g].board, <<3, 3>>)
        /\ ~EmptyAt(games[g].board, <<3 + d[1], 3 + d[2]>>)
        /\ games[g].board[3 + 2 * d[1]][3 + 2 * d[2]] =
                [piece |-> "Scout", color |-> games[g][who].color]

Aligned(piece, from, to) ==
    LET straight == to[1] = from[1] \/ to[2] = from[2]
        diagonal == Abs(to[1] - from[1]) = Abs(to[2] - from[2])
    IN  CASE piece = "Rook" -> straight
          [] piece = "Bishop" -> diagonal
          [] piece = "Queen" -> straight \/ diagonal

\* along a line of the kind, over empty squares, onto an empty square or an enemy
LineRule(slots, man, from, to) ==
    /\ OnBoard(to)
    /\ to # from
    /\ Aligned(man.piece, from, to)
    /\ \A sq \in Between(from, to) : EmptyAt(slots, sq)
    /\ EmptyAt(slots, to) \/ EnemyAt(slots, to, man.color)

LineMen == {"Rook", "Bishop", "Queen"}

\* the walk of is_path_clear from a line man to any square ends within BoardSize squares
WalkEnds ==
    \A m \in OwnMen(LineMen) :
        \A to \in Idx \X Idx :
            LET from == m[3]
                dr == Signum(to[1] - from[1])
                dc == Signum(to[2] - from[2])
            IN  path_walk_steps(games[m[1]].board, from[1] + dr, from[2] + dc,
                                to[1], to[2], dr, dc) <= BoardSize

\* make_move of a line man onto its own square fails and leaves the board as it was
StayingFails ==
    \A m \in OwnMen(LineMen) :
        /\ ~MoveSucceeds(m[1], m[2], m[3], m[3])
        /\ BoardAfter(m[1], m[2], m[3], m[3]) = games[m[1]].board

\* C18: for a player with at least one move point moving an own Rook, Bishop
\* or Queen, the move succeeds exactly when source and destination differ, the
\* displacement is aligned for the kind, every square strictly between the two
\* is empty and the destination is empty or holds an enemy man; the walk along
\* the path ends, and a move onto the man's own square is rejected with the
\* board unchanged.
C18_LineMoves ==
    /\ [](RuleDecides(LineMen, LineRule) /\ WalkEnds /\ StayingFails)
    /\ [][RuleObeyed(LineMen, LineRule)]_vars

\* a Rook, Bishop or Queen has slid from (3, 3) over an empty square to a square two away
C18_Witness ==
    \E g \in DOMAIN games, who \in PlayerSlots, d \in Directions :
        /\ MoveSucceededBy(resp, games, g, who)
        /\ EmptyAt(games[g].board, <<3, 3>>)
        /\ EmptyAt(games[g].board, <<3 + d[1], 3 + d[2]>>)
        /\ games[g].board[3 + 2 * d[1]][3 + 2 * d[2]].piece \in LineMen
        /\ games[g].board[3 + 2 * d[1]][3 + 2 * d[2]].color = games[g][who].color

\* the knight's or the king's shape, onto an empty square or an enemy
JumpRule(slots, man, from, to) ==
    LET dr == Abs(to[1] - from[1])
        dc == Abs(to[2] - from[2])
    IN  /\ OnBoard(to)
        /\ IF man.piece = "Knight" THEN <<dr, dc>> \in {<<2, 1>>, <<1, 2>>}
            ELSE dr <= 1 /\ dc <= 1 /\ <<dr, dc>> # <<0, 0>>
        /\ EmptyAt(slots, to) \/ EnemyAt(slots, to, man.color)

\* C19: for a player with at least one move point moving an own Knight or
\* King, the move succeeds exactly when the destination is on the board, the
\* displacement has the kind's shape (Knight: (2, 1) or (1, 2) in absolute
\* values; King: at most 1 on both axes and not zero on both) and the
\* destination is empty or holds an enemy man, whatever stands on any other
\* square.
C19_JumpMoves ==
    /\ []RuleDecides({"Knight", "King"}, JumpRule)
    /\ [][RuleObeyed({"Knight", "King"}, JumpRule)]_vars

\* a Knight has jumped from (3, 3) to (4, 5) past a man standing on (3, 4) or (4, 4)
C19_Witness ==
    \E g \in DOMAIN games, who \in PlayerSlots :
        /\ MoveSucceededBy(resp, games, g, who)
        /\ EmptyAt(games[g].board, <<3, 3>>)
        /\ ~EmptyAt(games[g].board, <<3, 4>>) \/ ~EmptyAt(games[g].board, <<4, 4>>)
        /\ games[g].board[4][5] = [piece |-> "Knight", color |-> games[g][who].color]

\* the squares that hold a man of the color
MenOf(slots, color) == {sq \in Idx \X Idx : slots[sq[1]][sq[2]].color = color}

\* the board with only the men standing on `squares`
Only(slots, squares) ==
    [r \in Idx |-> [c \in Idx |-> IF <<r, c>> \in squares THEN slots[r][c] ELSE None]]

\* what get_visible_positions returns for one board and color
VisibleAsStated(slots, color) ==
    LET seen == get_visible_positions(slots, color)
        men == MenOf(slots, color)
    IN
    /\ seen = UNION {{sq \in Idx \X Idx :
                        SquaredDistance(own, sq) <=
                            (IF slots[own[1]][own[2]].piece = "Scout" THEN 9 ELSE 1)} :
                      own \in men}
    /\ men \subseteq seen
    /\ seen = UNION {get_visible_positions(Only(slots, {own}), color) : own \in men}
    /\ \A own \in men : \A dr \in {-1, 1}, dc \in {-1, 1} :
        (slots[own[1]][own[2]].piece # "Scout" /\ <<own[1] + dr, own[2] + dc>> \in seen) =>
            <<own[1] + dr, own[2] + dc>> \in
                get_visible_positions(Only(slots, men \ {own}), color)
    /\ seen = get_visible_positions(Only(slots, men), color)

\* C11: for every board and color, the visible squares are exactly the
\* squares of the board within squared distance R^2 of some man of that color,
\* with R = 3 for a Scout and R = 1 for every other kind: they contain the
\* square of every man of the color, are the union over the men of the color,
\* leave out the diagonal neighbours of a man that is no Scout unless another
\* man of the color covers them, and are the same whatever the other color
\* has on the board.
C11_VisibleSquares ==
    \A g \in DOMAIN games : \A color \in PlayerColor :
        VisibleAsStated(games[g].board, color)

\* get_board has shown a player whose Scout stands on (3, 3) two enemy men in
\* one line with it, the nearer one not hiding the farther one
C11_Witness ==
    \E d \in Directions :
        /\ resp.op = "get_board"
        /\ resp.status = "OK"
        /\ games[resp.game_id].board[3][3] = [piece |-> "Scout", color |-> resp.result.your_color]
        /\ is_some(resp.result.slots[3 + d[1]][3 + d[2]])
        /\ is_some(resp.result.slots[3 + 2 * d[1]][3 + 2 * d[2]])
        /\ resp.result.slots[3 + d[1]][3 + d[2]].color # resp.result.your_color
        /\ resp.result.slots[3 + 2 * d[1]][3 + 2 * d[2]].color # resp.result.your_color

MenCount(slots, color) == Cardinality(MenOf(slots, color))

Opponent(color) == IF color = "White" THEN "Black" ELSE "White"

\* the cells in which two boards differ
Changed(before, after) ==
    {sq \in Idx \X Idx : after[sq[1]][sq[2]] # before[sq[1]][sq[2]]}

\* `after` is `before` with the man of `from` carried to `to`, and nothing else
Carried(before, after, from, to) ==
    /\ from # to
    /\ Changed(before, after) = {from, to}
    /\ after[from[1]][from[2]] = None
    /\ after[to[1]][to[2]] = before[from[1]][from[2]]
    /\ MenCount(after, before[from[1]][from[2]].color) =
            MenCount(before, before[from[1]][from[2]].color)
    /\ MenCount(before, Opponent(before[from[1]][from[2]].color))
            - MenCount(after, Opponent(before[from[1]][from[2]].color)) \in {0, 1}

\* every make_move that would succeed carries its man and touches nothing else
EveryMoveCarries ==
    \A m \in OwnMen(ChestPiece) :
        \A to \in Idx \X Idx :
            LET out == make_move(games, m[1], MoveRequest(games[m[1]][m[2]].id, m[3], to)) IN
            (out.result.kind = "Ok" /\ out.result.success) =>
                Carried(games[m[1]].board, out.games[m[1]].board, m[3], to)

\* a successful make_move step carries one man and makes no color more numerous
MoveStepCarries ==
    \A g \in DOMAIN games :
        MoveStep(g) =>
            /\ Cardinality(Changed(games[g].board, games'[g].board)) = 2
            /\ LET from == SquareLeft(g)
                   to == SquareReached(g)
               IN  Carried(games[g].board, games'[g].board, from, to)
            /\ \A color \in PlayerColor :
                MenCount(games'[g].board, color) <= MenCount(games[g].board, color)

\* C15: a successful make_move from `from` to `to` changes exactly those two
\* cells: `from` becomes empty and `to` holds the man that stood on `from`, of
\* the same kind and color, whatever stood on `to` before; the other 62 cells
\* stay. So the mover's number of men stays, the opponent's drops by at most
\* one, and no color ever has more than 16 men.
C15_MoveChangesTwoCells ==
    /\ [](EveryMoveCarries /\
          \A g \in DOMAIN games : \A color \in PlayerColor :
              MenCount(games[g].board, color) <= 16)
    /\ [][MoveStepCarries]_vars

\* a man has just taken an enemy man: the mover's color is alone on the board
C15_Witness ==
    \E g \in DOMAIN games, who \in PlayerSlots :
        /\ MoveSucceededBy(resp, games, g, who)
        /\ moved = 1
        /\ EmptyAt(games[g].board, <<3, 3>>)
        /\ MenCount(games[g].board, games[g][who].color) = 1
        /\ MenCount(games[g].board, Opponent(games[g][who].color)) = 0

\* the number of men of the kind in the row
KindsInRow(slots, row, kind) == Cardinality({c \in Idx : slots[row][c].piece = kind})

\* the row holds one King, one Queen, one Knight, one Scout, two Rooks and
\* two Bishops, all of the color
BackRank(slots, row, color) ==
    /\ \A c \in Idx : slots[row][c].color = color
    /\ \A kind \in {"King", "Queen", "Knight", "Scout"} : KindsInRow(slots, row, kind) = 1
    /\ \A kind \in {"Rook", "Bishop"} : KindsInRow(slots, row, kind) = 2

\* the standard position, as the rows and numbers of men that make it
StandardAsStated(slots) ==
    /\ slots = StandardPosition
    /\ \A c \in Idx : slots[1][c] = [piece |-> "Pawn", color |-> "White"]
    /\ \A c \in Idx : slots[6][c] = [piece |-> "Pawn", color |-> "Black"]
    /\ BackRank(slots, 0, "White")
    /\ BackRank(slots, 7, "Black")
    /\ \A c \in Idx :
        /\ slots[0][c].piece = "Knight" <=> slots[7][c].piece = "Scout"
        /\ slots[0][c].piece = "Scout" <=> slots[7][c].piece = "Knight"
        /\ slots[0][c].piece \notin {"Knight", "Scout"} => slots[7][c].piece = slots[0][c].piece
    /\ \A r \in 2 .. 5 : \A c \in Idx : EmptyAt(slots, <<r, c>>)
    /\ \A color \in PlayerColor : MenCount(slots, color) = 16

\* the step creates a game
GameCreated(g) == g \in DOMAIN games' /\ g \notin DOMAIN games

\* C20: setup_initial_position, applied to any board, yields the same board:
\* White has 8 Pawns on row 1 and on row 0 one King, one Queen, one Knight,
\* one Scout, two Rooks and two Bishops; Black has 8 Pawns on row 6 and the
\* same kinds on row 7 with the columns of Knight and Scout swapped; rows 2 to
\* 5 are empty; each color has 16 men.
C20_SetupIsStandard ==
    /\ [](/\ StandardAsStated(setup_initial_position(NewBoard))
          /\ \A g \in DOMAIN games : StandardAsStated(setup_initial_position(games[g].board)))
    /\ [][\A g \in 1 .. (nextId + 1) : GameCreated(g) => StandardAsStated(games'[g].board)]_vars

\* a game has just been created while another game's board is no longer standard
C20_Witness ==
    /\ resp.op = "join_queue"
    /\ resp.result.game_id # NilUuid
    /\ games[resp.result.game_id].board = StandardPosition
    /\ \E g \in DOMAIN games : games[g].board # StandardPosition

\* the game of the race and the man a request would move, as the race starts
RaceGame == CHOOSE g \in DOMAIN RaceStart : TRUE
ManAtStart(move_req) == RaceStart[RaceGame].board[move_req.from[1]][move_req.from[2]]

\* the request is a move to the square of the race that the storage accepts
\* as the race starts, before either player has moved
LegalAtStart(move_req) ==
    /\ move_req.to = RaceSquare
    /\ EmptyAt(RaceStart[RaceGame].board, RaceSquare)
    /\ LET out == make_move(RaceStart, RaceGame, move_req) IN
        out.result.kind = "Ok" /\ out.result.success

\* handler p returns from the later of two moves to the square: its move was
\* legal as the race started, and when it took the lock the other player's
\* man stood on the square and no other move had been made
LaterMoveReturns(p) ==
    /\ pc[p] # "idle" /\ pc'[p] = "idle"
    /\ job[p].op = "make_move"
    /\ job[p].game_id = RaceGame
    /\ LegalAtStart(job[p].move_req)
    /\ moved = 1
    /\ stable.held
    /\ EnemyAt(stable.games[RaceGame].board, RaceSquare, ManAtStart(job[p].move_req).color)

\* C12 as stated: the square ends up holding the man of the request that took
\* the lock last
C12_AsStated ==
    [][\A p \in Handlers :
        LaterMoveReturns(p) =>
            games'[RaceGame].board[RaceSquare[1]][RaceSquare[2]] = ManAtStart(job[p].move_req)]_vars

\* what the later move does, given the storage as it was when its handler took the lock
LaterMoveRevalidated(p) ==
    LET move_req == job[p].move_req
        man == ManAtStart(move_req)
        who == player_slot(games[RaceGame], move_req.player_id)
        other == IF who = "player1" THEN "player2" ELSE "player1"
        before == stable.games[RaceGame]
        after == games'[RaceGame]
    IN  /\ Points(before, other) = Points(RaceStart[RaceGame], other) - 1
        /\ Points(before, who) = Points(RaceStart[RaceGame], who)
        /\ resp'.op = "make_move" /\ resp'.player_id = move_req.player_id
        /\ IF man.piece \in {"Pawn", "Scout"}
           THEN /\ ~resp'.result.success
                /\ after = before
                /\ after.board[RaceSquare[1]][RaceSquare[2]].color = Opponent(man.color)
           ELSE /\ resp'.result.success
                /\ Carried(before.board, after.board, move_req.from, RaceSquare)
                /\ after.board[RaceSquare[1]][RaceSquare[2]] = man
                /\ Points(after, who) = Points(before, who) - 1
                /\ Points(after, other) = Points(before, other)

\* C12, amended: when both players of a game submit moves to one square at
\* the same time, each legal before either is applied, the moves are applied
\* one after the other in the order the lock is taken, the later one checked
\* against the board the earlier one left.  The later move takes the square,
\* and the earlier mover's man with it, unless it is a Pawn's step or a
\* Scout's move: those are refused because the square is no longer empty, the
\* board and the move points stay, and the square keeps the man of the
\* request that took the lock first.
C12_LaterMoveRevalidated ==
    [][\A p \in Handlers : LaterMoveReturns(p) => LaterMoveRevalidated(p)]_vars

\* Black's Scout has been refused the square White's Knight took before it
C12_Witness ==
    /\ resp.op = "make_move"
    /\ resp.result.kind = "Ok"
    /\ resp.result.message = "Scouts cannot capture pieces"
    /\ moved = 1
    /\ games[RaceGame].board[RaceSquare[1]][RaceSquare[2]] = [piece |-> "Knight", color |-> "White"]
    /\ Points(games[RaceGame], "player2") = 1

\* the shape of the move is one the kind makes, the destination's color aside
ShapeValid(slots, man, from, to) ==
    LET dr == to[1] - from[1]
        dc == to[2] - from[2]
    IN  CASE man.piece = "Pawn" ->
                /\ dr = (IF man.color = "White" THEN 1 ELSE -1)
                /\ \/ dc = 0 /\ EmptyAt(slots, to)
                   \/ Abs(dc) = 1 /\ ~EmptyAt(slots, to)
          [] man.piece = "Scout" ->
                SquaredDistance(from, to) >= 1 /\ SquaredDistance(from, to) <= 4
          [] man.piece \in LineMen ->
                /\ Aligned(man.piece, from, to)
                /\ \A sq \in Between(from, to) : EmptyAt(slots, sq)
          [] man.piece = "Knight" ->
                <<Abs(dr), Abs(dc)>> \in {<<2, 1>>, <<1, 2>>}
          [] man.piece = "King" ->
                Abs(dr) <= 1 /\ Abs(dc) <= 1 /\ <<dr, dc>> # <<0, 0>>

\* the first check, in the stated order, that the request fails in game g,
\* or "none" when it passes them all
FirstFailure(g, move_req) ==
    LET game_state == games[g]
        who == IF move_req.player_id = game_state.player1.id THEN "player1" ELSE "player2"
        from == move_req.from
        to == move_req.to
        slots == game_state.board
    IN  IF move_req.player_id \notin {game_state.player1.id, game_state.player2.id}
        THEN "Player not in this game"
        ELSE IF Points(game_state, who) = 0 THEN "No moves remaining"
        ELSE IF ~OnBoard(from) \/ ~OnBoard(to) THEN "Invalid coordinates"
        ELSE IF EmptyAt(slots, from) THEN "No piece at source position"
        ELSE IF slots[from[1]][from[2]].color # game_state[who].color THEN "Not your piece"
        ELSE IF ~ShapeValid(slots, slots[from[1]][from[2]], from, to)
            THEN "Invalid move for this piece"
        ELSE IF slots[from[1]][from[2]].piece = "Scout" /\ ~EmptyAt(slots, to)
            THEN "Scouts cannot capture pieces"
        ELSE IF slots[to[1]][to[2]].color = game_state[who].color
            THEN "Cannot capture your own piece"
        ELSE "none"

\* make_move answers the request as its first failing check says
AnsweredInOrder(g, move_req) ==
    LET out == make_move(games, g, move_req)
        failure == FirstFailure(g, move_req)
        who == player_slot(games[g], move_req.player_id)
    IN  CASE failure = "Player not in this game" ->
                /\ out.result = [kind |-> "Err", error |-> failure]
                /\ out.games = games
          [] failure = "none" ->
                /\ out.result.kind = "Ok" /\ out.result.success
                /\ Carried(games[g].board, out.games[g].board, move_req.from, move_req.to)
                /\ Points(out.games[g], who) = Points(games[g], who) - 1
                /\ out.result.remaining_moves = Points(out.games[g], who)
          [] OTHER ->
                /\ out.result.kind = "Ok" /\ ~out.result.success
                /\ out.result.message = failure
                /\ out.games = games
                /\ out.result.remaining_moves = Points(games[g], who)
                /\ failure = "No moves remaining" => out.result.remaining_moves = 0

\* the response of a make_move step reports the points its player then holds
RemainingReported ==
    (resp'.op = "make_move" /\ resp'.result.kind = "Ok") =>
        \A who \in PlayerSlots :
            resp'.player_id = games'[resp'.game_id][who].id =>
                resp'.result.remaining_moves = Points(games'[resp'.game_id], who)

\* C21: make_move on an existing game is decided by the first failing check
\* in this order: the requester is a player of the game ("Player not in this
\* game", an error); the player holds a move point ("No moves remaining" with
\* remaining 0, whatever the squares, also off the board); the coordinates
\* are on the board; the source is occupied ("No piece at source position");
\* the man is the mover's ("Not your piece"); the shape is valid for the kind
\* ("Invalid move for this piece"); a Scout's destination is empty ("Scouts
\* cannot capture pieces"); the destination is not the mover's own ("Cannot
\* capture your own piece").  Only when all pass is the move made, and the
\* response's remaining_moves is the mover's stored points after the call.
C21_ChecksInOrder ==
    /\ [](\A g \in DOMAIN games : \A player_id \in PlayerIdInputs : \A from \in BoardSquares :
            \A to \in BoardSquares :
                AnsweredInOrder(g, MoveRequest(player_id, from, to)))
    /\ [][RemainingReported]_vars

\* Black's Scout has been refused a move onto Black's own pawn: the Scout
\* check answers before the own-capture check
C21_Witness ==
    /\ resp.op = "make_move"
    /\ resp.result.kind = "Ok"
    /\ resp.result.message = "Scouts cannot capture pieces"
    /\ resp.player_id = games[resp.game_id].player2.id
    /\ \A sq \in Idx \X Idx :
        SquaredDistance(<<7, 1>>, sq) \in 1 .. 4 =>
            ~EnemyAt(games[resp.game_id].board, sq, "Black")

\* C22: a countdown of 3 means 3 rounds of the increment task until the next
\* move point: a player who does not move in a newly created game (1 point,
\* countdown 3) holds 2 points after exactly 3 rounds, and below the cap
\* gains one further point every 3 rounds after each reset of the countdown.
C22_PointEveryThreeTicks ==
    \A g \in DOMAIN games : \A k \in 1 .. (MaxStoredMoves - InitialMoves) :
        ticks = k * CountdownReset => Points(games[g], "player2") = InitialMoves + k

\* what the increment task does for the player who does not move: the point
\* comes with the round after the countdown has reached 0, every 4 rounds
RegenEveryFourTicks ==
    \A g \in DOMAIN games :
        /\ Points(games[g], "player2") =
                Min(MaxStoredMoves, InitialMoves + ticks \div (CountdownReset + 1))
        /\ Countdown(games[g], "player2") = CountdownReset - (ticks % (CountdownReset + 1))

\* the game of SpecRegen and SpecLive
LiveGame == CHOOSE g \in DOMAIN join_queue(join_queue(<<>>, <<>>, 1, 2).games,
                                           join_queue(<<>>, <<>>, 1, 2).queue, 2, 3).games : TRUE

\* the step is a successful move of the player `who` of LiveGame
MovesNow(who) ==
    /\ resp' # resp
    /\ LiveGame \in DOMAIN games'
    /\ MoveSucceededBy(resp', games', LiveGame, who)

\* C23: with the increment task fairly scheduled, a player who from some
\* point on makes no successful move eventually holds 5 move points and
\* holds 5 in every later state; and a player who holds 0 move points
\* eventually holds a move point again.
C23_RegeneratesToFull ==
    \A who \in PlayerSlots :
        /\ <>[][~MovesNow(who)]_vars => <>[](Points(games[LiveGame], who) = MaxStoredMoves)
        /\ (Points(games[LiveGame], who) = 0) ~> (Points(games[LiveGame], who) > 0)

\* the first player has spent the one move point on the b-pawn's step and
\* holds 5 again, while a handler holds a guard and the task waits for it
C23_Witness ==
    /\ games[LiveGame].board[2][ProbeFile].piece = "Pawn"
    /\ Points(games[LiveGame], "player1") = MaxStoredMoves
    /\ pc[TickTask] = "waiting"
    /\ \E p \in Handlers : pc[p] # "idle"
====
